---------------------------- MODULE Spec2Model ----------------------------
(***************************************************************************)
(* A model of go-aiproxy: the protocol converter (internal/convert), the   *)
(* provider stream readers and the HTTP streaming handler                  *)
(* (internal/server), the token manager (internal/auth), the cache manager *)
(* (internal/cache) and the handlers in front of it, the provider pool     *)
(* manager (internal/pool), the WebSocket streaming request and the        *)
(* WebSocket hub (internal/websocket), makeRequest of the Kiro and Qwen    *)
(* providers (internal/providers), and the load balancer and the cluster   *)
(* of proxy nodes (internal/loadbalancer).                                 *)
(* Each component has its own specification; the others stay idle in it.   *)
(*                                                                         *)
(* Modelling conventions                                                   *)
(*  - A Go string that the code only copies, compares or concatenates is a *)
(*    TLA+ string.  A string the code takes apart (a data URL, a JSON      *)
(*    argument text) is a sequence of tokens, so that splitting and        *)
(*    parsing are computed and can fail.                                   *)
(*  - float64 parameters are counted in tenths (0.7 is 7, 1.0 is 10); the  *)
(*    zero value 0 is Go's "absent".                                       *)
(*  - interface{} content is a tagged record: t = "nil", "string",         *)
(*    "ifaces" ([]interface{} as decoded from JSON) or "parts"             *)
(*    ([]ContentPart).                                                     *)
(*  - uuid.New() and time.Now() are the opaque tokens "uuid" and "now".    *)
(***************************************************************************)
EXTENDS Integers, Sequences, FiniteSets, TLC

VARIABLES
    orig,       \* the object handed to the first conversion call
    origProto,  \* the dialect orig is written in
    cur,        \* result of the last conversion call: [val, err]
    path,       \* dialects the object has been converted through, origProto first
    op,         \* which Convert* entry point the exchange uses
    \* ---- one HTTP streaming exchange (server.handleStreamingResponse) ----
    fromProtocol,  \* the client's dialect
    toProtocol,    \* the provider's dialect
    upstream0,     \* the lines of the provider's response body, as sent
    upstream,      \* the lines the stream reader has not consumed yet
    rbuf,          \* the stream reader's buffer field: text not yet returned
    readLog,       \* history: the chunks stream.Read has returned, in order
    gpc,           \* the reading goroutine: idle, read, send, sendDone, exit, closed
    pending,       \* the value the goroutine is sending on dataChan
    dataClosed,    \* close(dataChan) has run
    hpc,           \* the handler: idle, start, stream, returned
    ctxDone,       \* the request context is cancelled (client gone)
    streamClosed,  \* stream.Close() has run
    written,       \* what the handler has written to the client, in order
    \* ---- the token manager (auth.TokenManager) ----
    currentToken,  \* tm.currentToken: <<>> is nil
    expiryBuffer,  \* tm.expiryBuffer
    tokenNow,      \* time.Now() as the token manager reads it
    tokenCalls,    \* history: how often tokenSource.Token() has been called
    getCall,       \* per calling goroutine, its call of GetToken
    \* ---- the cache manager (cache.CacheManager) ----
    cacheItems,    \* the items of cm.cache, by key: <<>> is absent
    cacheEnabled,  \* cm.enabled
    currentSize,   \* cm.currentSize
    cacheStats,    \* cm.stats: hits, misses, evictions
    cacheNow,      \* time.Now() as the cache reads it
    cacheSets,     \* history: how often Set has been called
    lastGet,       \* history: the last call of Get and its answer
    latestSet,     \* history: per key, the latest Set and what became of it
    \* ---- the chat-completion handlers in front of the cache (server) ----
    answeredAt,    \* history: per request, when it was last answered with success: 0 never
    lastReply,     \* history: the last chat-completion request and how it was answered
    providerCalls, \* history: how often a provider has been called
    chatRequests,  \* history: how many chat-completion requests have been handled
    \* ---- the provider pool manager (pool.Manager) ----
    pools,           \* m.pools: per provider type, its list of provider configs
    roundRobinIndex, \* m.roundRobinIndex
    selCall,         \* per calling goroutine, its call of SelectProvider
    poolFatal,       \* the runtime has stopped the process: concurrent map writes
    streak,          \* history: what the latest calls for PooledType returned
    \* ---- one WebSocket streaming request (websocket.WebSocketHandler) ----
    wsUpstream,    \* the chunks the provider's stream has not returned yet
    wsReadFails,   \* the provider's stream ends with an error, not with io.EOF
    wsClosed,      \* stream.Close() has run
    wsReadLog,     \* history: the chunks stream.Read has returned, in order
    wsHandler,     \* handleStreamingRequest: idle, spawned, returned
    wsPc,          \* the forwarding goroutine: idle, read, send, ended
    wsToSend,      \* the messages the goroutine is about to hand to SendMessage
    wsSend,        \* the client's send channel
    wsReceived,    \* history: the messages written to the connection, in order
    \* ---- the load balancer (loadbalancer.LoadBalancer) ----
    lbInstances,   \* lb.instances, each with its ID, Weight and IsHealthy
    lbAlgorithm,   \* lb.algorithm
    currentIndex,  \* lb.currentIndex
    lbMetrics,     \* lb.metrics: HealthyInstances and TotalInstances
    lbChecks,      \* history: how often the health checker has changed an instance
    lbStreak,      \* history: the instances the latest selections returned
    \* ---- the WebSocket hub and its clients (websocket.Hub, websocket.Client) ----
    hubClients,    \* the keys of h.clients
    hubRun,        \* Hub.Run: run, stopped
    clientSend,    \* per client: the messages queued in client.send
    clientCloses,  \* per client: how often close(client.send) has been executed
    connClosed,    \* per client: client.conn.Close() has run
    readPumpPc,    \* per client: new, run, unregister, done
    writePumpPc,   \* per client: new, run, done
    streamPc,      \* per client, the goroutine of a streaming request: idle, run, done
    hubPanic,      \* the panic that has stopped the process; "" for none
    \* ---- makeRequest of the Kiro and Qwen providers (kiro.Client, qwen.Client) ----
    mrProvider,      \* the provider whose makeRequest is called: kiro, qwen
    mrTokenManager,  \* c.tokenManager != nil
    mrPc,            \* makeRequest: idle, do, refresh, returned
    mrAttempts,      \* history: how often httpClient.Do has run, counted up to MaxAttempts
    mrToken,         \* how often the token has been replaced, counted up to MaxAttempts
    mrCtxDone,       \* the caller's context is cancelled
    mrResult,        \* what makeRequest returned: [status, err]
    \* ---- the cluster of proxy nodes (loadbalancer.Cluster), one entry per node ----
    clStarted,   \* the nodes whose Join has returned: their loops run
    clNodes,     \* per node: the keys of c.nodes
    clIsLeader,  \* per node: c.isLeader
    clLeaderID,  \* per node: c.leaderID, NoLeader for ""
    clReply,     \* per node: the answer to its join request, on its way back
    clChecked,   \* history: the nodes that have run checkLeader since the last change of membership
    clFailed     \* history: a heartbeat has failed

convVars == <<orig, origProto, cur, path, op>>

streamVars == <<fromProtocol, toProtocol, upstream0, upstream, rbuf, readLog, gpc, pending,
                dataClosed, hpc, ctxDone, streamClosed, written>>

tokenVars == <<currentToken, expiryBuffer, tokenNow, tokenCalls, getCall>>

cacheVars == <<cacheItems, cacheEnabled, currentSize, cacheStats, cacheNow, cacheSets,
               lastGet, latestSet>>

serverVars == <<answeredAt, lastReply, providerCalls, chatRequests>>

poolVars == <<pools, roundRobinIndex, selCall, poolFatal, streak>>

wsVars == <<wsUpstream, wsReadFails, wsClosed, wsReadLog, wsHandler, wsPc, wsToSend, wsSend, wsReceived>>

lbVars == <<lbInstances, lbAlgorithm, currentIndex, lbMetrics, lbChecks, lbStreak>>

hubVars == <<hubClients, hubRun, clientSend, clientCloses, connClosed, readPumpPc, writePumpPc, streamPc, hubPanic>>

retryVars == <<mrProvider, mrTokenManager, mrPc, mrAttempts, mrToken, mrCtxDone, mrResult>>

clusterVars == <<clStarted, clNodes, clIsLeader, clLeaderID, clReply, clChecked, clFailed>>

vars == <<convVars, streamVars, tokenVars, cacheVars, serverVars, poolVars, wsVars, lbVars, hubVars, retryVars, clusterVars>>

\* what the actions of one component leave alone: the other components
outsideConv == <<streamVars, tokenVars, cacheVars, serverVars, poolVars, wsVars, lbVars, hubVars, retryVars, clusterVars>>

outsideStream == <<convVars, tokenVars, cacheVars, serverVars, poolVars, wsVars, lbVars, hubVars, retryVars, clusterVars>>

outsideToken == <<convVars, streamVars, cacheVars, serverVars, poolVars, wsVars, lbVars, hubVars, retryVars, clusterVars>>

outsideCache == <<convVars, streamVars, tokenVars, serverVars, poolVars, wsVars, lbVars, hubVars, retryVars, clusterVars>>

\* the chat-completion handlers act on the cache manager
outsideServer == <<convVars, streamVars, tokenVars, poolVars, wsVars, lbVars, hubVars, retryVars, clusterVars>>

outsidePool == <<convVars, streamVars, tokenVars, cacheVars, serverVars, wsVars, lbVars, hubVars, retryVars, clusterVars>>

outsideWs == <<convVars, streamVars, tokenVars, cacheVars, serverVars, poolVars, lbVars, hubVars, retryVars, clusterVars>>

outsideLb == <<convVars, streamVars, tokenVars, cacheVars, serverVars, poolVars, wsVars, hubVars, retryVars, clusterVars>>

outsideHub == <<convVars, streamVars, tokenVars, cacheVars, serverVars, poolVars, wsVars, lbVars, retryVars, clusterVars>>

outsideRetry == <<convVars, streamVars, tokenVars, cacheVars, serverVars, poolVars, wsVars, lbVars, hubVars, clusterVars>>

outsideCluster == <<convVars, streamVars, tokenVars, cacheVars, serverVars, poolVars, wsVars, lbVars, hubVars, retryVars>>

-----------------------------------------------------------------------------
(* Generic helpers                                                         *)

Min(a, b) == IF a < b THEN a ELSE b

Last(s) == s[Len(s)]

RECURSIVE SeqsUpTo(_, _)
\* all sequences over S of length at most n
SeqsUpTo(S, n) ==
    IF n = 0 THEN {<<>>}
    ELSE LET shorter == SeqsUpTo(S, n - 1)
         IN  shorter \cup {Append(s, x) : s \in {t \in shorter : Len(t) = n - 1}, x \in S}

RECURSIVE IndexOf(_, _, _)
\* least i >= from with s[i] = x, or 0
IndexOf(s, x, from) ==
    IF from > Len(s) THEN 0
    ELSE IF s[from] = x THEN from
    ELSE IndexOf(s, x, from + 1)

-----------------------------------------------------------------------------
(* pkg/models: protocol prefixes, roles and default constants              *)

ProtocolOpenAI == "openai"
ProtocolClaude == "claude"
ProtocolGemini == "gemini"
Protocols == {ProtocolOpenAI, ProtocolClaude, ProtocolGemini}

RoleSystem    == "system"
RoleUser      == "user"
RoleAssistant == "assistant"
RoleModel     == "model"
RoleTool      == "tool"

DefaultMaxTokens       == 8192
DefaultGeminiMaxTokens == 65536
DefaultTemperature     == 10
DefaultTopP            == 9

\* A Go error value.  NoErr is the nil error; UnsupportedErr is
\* fmt.Errorf("unsupported <what> from %s to %s", fromProvider, toProvider).
NoErr == [what |-> "nil", from |-> "", to |-> ""]

UnsupportedErr(what, from, to) == [what |-> what, from |-> from, to |-> to]

\* A call's (value, error) pair.  NoVal is the nil interface value.
NoVal == [kind |-> "nil"]

Ok(v) == [val |-> v, err |-> NoErr]

Fail(e) == [val |-> NoVal, err |-> e]

checkAndAssignOrDefault(value, defaultValue) ==
    IF value # 0 THEN value ELSE defaultValue

-----------------------------------------------------------------------------
(* Strings the code takes apart, as token sequences                        *)

\* strings.HasPrefix(s, "data:")
HasPrefixData(s) == Len(s) > 0 /\ s[1] = "data:"

\* SplitN2 that always answers with two pieces, the second one empty when the
\* separator is missing
SplitN2Padded(s, sep) ==
    LET i == IndexOf(s, sep, 1)
    IN  IF i = 0 THEN <<s, <<>>>>
        ELSE <<SubSeq(s, 1, i - 1), SubSeq(s, i + 1, Len(s))>>

\* strings.SplitN(s, sep, 2)
SplitN2(s, sep) ==
    LET i == IndexOf(s, sep, 1)
    IN  IF i = 0 THEN <<s>>
        ELSE <<SubSeq(s, 1, i - 1), SubSeq(s, i + 1, Len(s))>>

\* strings.Split(s, sep)[0]
SplitFirst(s, sep) ==
    LET i == IndexOf(s, sep, 1)
    IN  IF i = 0 THEN s ELSE SubSeq(s, 1, i - 1)

\* strings.TrimPrefix(s, "data:")
TrimPrefixData(s) == IF HasPrefixData(s) THEN Tail(s) ELSE s

\* fmt.Sprintf("data:%s;base64,%s", mimeType, data)
DataURL(mimeType, data) == <<"data:">> \o mimeType \o <<";", "base64", ",">> \o data

RECURSIVE JoinTokens(_)
\* the Go string a token sequence stands for
JoinTokens(toks) ==
    IF toks = <<>> THEN "" ELSE Head(toks) \o JoinTokens(Tail(toks))

\* A Go map[string]interface{}: nil, or a function from keys to values.
NilMap == [nil |-> TRUE, kv |-> <<>>]

MapOf(f) == [nil |-> FALSE, kv |-> f]

\* The keys a JSON text of the model may use, in byte order (encoding/json
\* writes a map's keys sorted).
KeyOrder == <<"location", "unit">>

JSONPunct == {"{", "}", ":", ",", "null"}

RECURSIVE ParseMembers(_, _, _)
\* members of a JSON object from token i on: key ":" value ("," | "}")
ParseMembers(toks, i, acc) ==
    IF i + 3 > Len(toks) THEN NilMap
    ELSE IF toks[i] \in JSONPunct \/ toks[i + 1] # ":" \/ toks[i + 2] \in JSONPunct
         THEN NilMap
    ELSE LET k   == toks[i]
             new == [x \in DOMAIN acc \cup {k} |-> IF x = k THEN toks[i + 2] ELSE acc[x]]
         IN  IF toks[i + 3] = "}" /\ i + 3 = Len(toks) THEN MapOf(new)
             ELSE IF toks[i + 3] = "," THEN ParseMembers(toks, i + 4, new)
             ELSE NilMap

\* var input map[string]interface{}; json.Unmarshal([]byte(text), &input)
\* with the error ignored: a text that is not a JSON object leaves input nil.
JSONUnmarshalMap(toks) ==
    IF Len(toks) < 2 \/ toks[1] # "{" THEN NilMap
    ELSE IF Len(toks) = 2 THEN (IF toks[2] = "}" THEN MapOf(<<>>) ELSE NilMap)
    ELSE ParseMembers(toks, 2, <<>>)

RECURSIVE MarshalMembers(_, _, _)
MarshalMembers(kv, i, first) ==
    IF i > Len(KeyOrder) THEN <<>>
    ELSE IF KeyOrder[i] \in DOMAIN kv
         THEN (IF first THEN <<>> ELSE <<",">>) \o <<KeyOrder[i], ":", kv[KeyOrder[i]]>>
              \o MarshalMembers(kv, i + 1, FALSE)
    ELSE MarshalMembers(kv, i + 1, first)

\* data, _ := json.Marshal(v); string(data)
marshalJSON(m) ==
    IF m.nil THEN <<"null">>
    ELSE <<"{">> \o MarshalMembers(m.kv, 1, TRUE) \o <<"}">>

-----------------------------------------------------------------------------
(* pkg/models: the wire records.  A nil pointer or an absent optional is   *)
(* the empty sequence, a present one a one-element sequence.               *)

ContentNil == [t |-> "nil", s |-> "", parts |-> <<>>]

ContentString(v) == [t |-> "string", s |-> v, parts |-> <<>>]

ContentParts(ps) == [t |-> "parts", s |-> "", parts |-> ps]

ContentIfaces(ps) == [t |-> "ifaces", s |-> "", parts |-> ps]

TextPart(v) == [type |-> "text", text |-> v, image_url |-> <<>>]

ImagePart(url) == [type |-> "image_url", text |-> "", image_url |-> <<url>>]

OpenAIMessage(role, content) ==
    [role |-> role, content |-> content, tool_calls |-> <<>>, tool_call_id |-> ""]

ToolCall(id, name, arguments) ==
    [id |-> id, type |-> "function", function |-> [name |-> name, arguments |-> arguments]]

Tool(name, description, parameters) ==
    [type |-> "function",
     function |-> [name |-> name, description |-> description, parameters |-> parameters]]

ClaudeContentZero ==
    [type |-> "", text |-> "", source |-> <<>>, id |-> "", name |-> "",
     input |-> NilMap, tool_use_id |-> "", content |-> ContentNil, thinking |-> ""]

ClaudeText(v) == [ClaudeContentZero EXCEPT !.type = "text", !.text = v]

ClaudeImage(mediaType, data) ==
    [ClaudeContentZero EXCEPT
        !.type = "image",
        !.source = <<[type |-> "base64", media_type |-> mediaType, data |-> data]>>]

ClaudeToolUse(id, name, input) ==
    [ClaudeContentZero EXCEPT !.type = "tool_use", !.id = id, !.name = name, !.input = input]

ClaudeToolResult(toolUseID, content) ==
    [ClaudeContentZero EXCEPT
        !.type = "tool_result", !.tool_use_id = toolUseID, !.content = content]

ClaudeMessage(role, content) == [role |-> role, content |-> content]

ClaudeTool(name, description, inputSchema) ==
    [name |-> name, description |-> description, input_schema |-> inputSchema]

\* &models.ClaudeRequest{}
ClaudeRequestZero ==
    [kind |-> "ClaudeRequest", model |-> "", messages |-> <<>>, system |-> "",
     max_tokens |-> 0, temperature |-> 0, top_p |-> 0, stream |-> FALSE, tools |-> <<>>]

GeminiPartZero == [text |-> "", inlineData |-> <<>>, fileData |-> <<>>]

GeminiText(v) == [GeminiPartZero EXCEPT !.text = v]

GeminiInline(mimeType, data) ==
    [GeminiPartZero EXCEPT !.inlineData = <<[mimeType |-> mimeType, data |-> data]>>]

GeminiFile(mimeType, uri) ==
    [GeminiPartZero EXCEPT !.fileData = <<[mimeType |-> mimeType, fileUri |-> uri]>>]

GeminiContent(role, parts) == [role |-> role, parts |-> parts]

GeminiFunctionDeclaration(name, description, parameters) ==
    [name |-> name, description |-> description, parameters |-> parameters]

\* &models.GeminiRequest{}
GeminiRequestZero ==
    [kind |-> "GeminiRequest", contents |-> <<>>, systemInstruction |-> <<>>,
     generationConfig |-> <<>>, tools |-> <<>>]

RECURSIVE ConcatTexts(_)
\* result += text, over the parts whose type is "text"
ConcatTexts(parts) ==
    IF parts = <<>> THEN ""
    ELSE (IF Head(parts).type = "text" THEN Head(parts).text ELSE "")
         \o ConcatTexts(Tail(parts))

GetContentAsString(m) ==
    CASE m.content.t = "string" -> m.content.s
      [] m.content.t = "ifaces" -> ConcatTexts(m.content.parts)
      [] OTHER                  -> ""

GetContentAsParts(m) ==
    CASE m.content.t = "string" -> <<TextPart(m.content.s)>>
      [] m.content.t = "ifaces" -> m.content.parts
      [] m.content.t = "parts"  -> m.content.parts
      [] OTHER                  -> <<>>

-----------------------------------------------------------------------------
(* internal/convert: OpenAI -> Claude request                              *)

\* case "image_url" of toClaudeRequestFromOpenAI: the blocks one image part adds
ClaudeImageBlocks(part) ==
    IF part.image_url # <<>> /\ HasPrefixData(part.image_url[1])
    THEN LET parts == SplitN2(part.image_url[1], ",")
         IN  IF Len(parts) = 2
             THEN <<ClaudeImage(TrimPrefixData(SplitFirst(parts[1], ";")), parts[2])>>
             ELSE <<>>
    ELSE <<>>

RECURSIVE ClaudeContentFromParts(_)
\* the switch over contentParts of toClaudeRequestFromOpenAI
ClaudeContentFromParts(parts) ==
    IF parts = <<>> THEN <<>>
    ELSE LET part == Head(parts)
             here == CASE part.type = "text"      -> <<ClaudeText(part.text)>>
                       [] part.type = "image_url" -> ClaudeImageBlocks(part)
                       [] OTHER                   -> <<>>
         IN  here \o ClaudeContentFromParts(Tail(parts))

RECURSIVE ClaudeToolUses(_)
\* one tool_use block per tool call, arguments decoded from their JSON text
ClaudeToolUses(toolCalls) ==
    IF toolCalls = <<>> THEN <<>>
    ELSE LET tc == Head(toolCalls)
         IN  <<ClaudeToolUse(tc.id, tc.function.name, JSONUnmarshalMap(tc.function.arguments))>>
             \o ClaudeToolUses(Tail(toolCalls))

\* the Claude message one non-system OpenAI message becomes
ClaudeMessageFromOpenAI(msg) ==
    LET fromParts == ClaudeContentFromParts(GetContentAsParts(msg))
        asTool    == IF msg.role = RoleTool
                     THEN ClaudeMessage(RoleUser,
                              <<ClaudeToolResult(msg.tool_call_id,
                                                 ContentString(GetContentAsString(msg)))>>)
                     ELSE ClaudeMessage(msg.role, fromParts)
    IN  IF Len(msg.tool_calls) > 0
        THEN ClaudeMessage(asTool.role, ClaudeToolUses(msg.tool_calls))
        ELSE asTool

\* claudeReq.System = msg.GetContentAsString(), for a system message
ClaudeSystemAssign(system, msg) == GetContentAsString(msg)

RECURSIVE ClaudeFoldMessages(_, _)
\* the loop over openaiReq.Messages; acc is [system, messages]
ClaudeFoldMessages(msgs, acc) ==
    IF msgs = <<>> THEN acc
    ELSE LET msg == Head(msgs)
             cm  == ClaudeMessageFromOpenAI(msg)
             nxt == IF msg.role = RoleSystem
                    THEN [acc EXCEPT !.system = ClaudeSystemAssign(acc.system, msg)]
                    ELSE IF Len(cm.content) > 0
                         THEN [acc EXCEPT !.messages = Append(acc.messages, cm)]
                         ELSE acc
         IN  ClaudeFoldMessages(Tail(msgs), nxt)

\* ClaudeToolFromOpenAI with the InputSchema field left unset
ClaudeToolFromOpenAINoSchema(tool) ==
    ClaudeTool(tool.function.name, tool.function.description, NilMap)

ClaudeToolFromOpenAI(tool) ==
    ClaudeTool(tool.function.name, tool.function.description, tool.function.parameters)

toClaudeRequestFromOpenAI(openaiReq) ==
    LET folded == ClaudeFoldMessages(openaiReq.messages, [system |-> "", messages |-> <<>>])
    IN  Ok([kind        |-> "ClaudeRequest",
            model       |-> openaiReq.model,
            messages    |-> folded.messages,
            system      |-> folded.system,
            max_tokens  |-> checkAndAssignOrDefault(openaiReq.max_tokens, DefaultMaxTokens),
            temperature |-> checkAndAssignOrDefault(openaiReq.temperature, DefaultTemperature),
            top_p       |-> checkAndAssignOrDefault(openaiReq.top_p, DefaultTopP),
            stream      |-> openaiReq.stream,
            tools       |-> [i \in 1..Len(openaiReq.tools) |->
                                ClaudeToolFromOpenAI(openaiReq.tools[i])]])

-----------------------------------------------------------------------------
(* internal/convert: OpenAI -> Gemini request                              *)

\* case "image_url" of toGeminiRequestFromOpenAI: the parts one image part adds
GeminiImageParts(part) ==
    IF part.image_url = <<>> THEN <<>>
    ELSE IF HasPrefixData(part.image_url[1])
         THEN LET parts == SplitN2(part.image_url[1], ",")
              IN  IF Len(parts) = 2
                  THEN <<GeminiInline(TrimPrefixData(SplitFirst(parts[1], ";")), parts[2])>>
                  ELSE <<>>
    ELSE <<GeminiFile(<<"image/", "jpeg">>, part.image_url[1])>>

RECURSIVE GeminiPartsFromParts(_)
GeminiPartsFromParts(parts) ==
    IF parts = <<>> THEN <<>>
    ELSE LET part == Head(parts)
             here == CASE part.type = "text"      -> <<GeminiText(part.text)>>
                       [] part.type = "image_url" -> GeminiImageParts(part)
                       [] OTHER                   -> <<>>
         IN  here \o GeminiPartsFromParts(Tail(parts))

RECURSIVE JoinNewline(_)
\* strings.Join(texts, "\n")
JoinNewline(texts) ==
    IF texts = <<>> THEN ""
    ELSE IF Len(texts) = 1 THEN texts[1]
    ELSE texts[1] \o "\n" \o JoinNewline(Tail(texts))

RECURSIVE SystemTexts(_)
\* systemTexts: GetContentAsString of every system message, in order
SystemTexts(msgs) ==
    IF msgs = <<>> THEN <<>>
    ELSE (IF Head(msgs).role = RoleSystem THEN <<GetContentAsString(Head(msgs))>> ELSE <<>>)
         \o SystemTexts(Tail(msgs))

\* role := msg.Role; if role == RoleAssistant { role = RoleModel }
GeminiRole(role) == IF role = RoleAssistant THEN RoleModel ELSE role

RECURSIVE GeminiContents(_)
\* the loop over nonSystemMessages
GeminiContents(msgs) ==
    IF msgs = <<>> THEN <<>>
    ELSE LET msg   == Head(msgs)
             parts == GeminiPartsFromParts(GetContentAsParts(msg))
         IN  (IF msg.role # RoleSystem /\ Len(parts) > 0
              THEN <<GeminiContent(GeminiRole(msg.role), parts)>>
              ELSE <<>>)
             \o GeminiContents(Tail(msgs))

GeminiDeclFromOpenAI(tool) ==
    GeminiFunctionDeclaration(tool.function.name, tool.function.description,
                              tool.function.parameters)

toGeminiRequestFromOpenAI(openaiReq) ==
    LET systemTexts == SystemTexts(openaiReq.messages)
    IN  Ok([kind     |-> "GeminiRequest",
            contents |-> GeminiContents(openaiReq.messages),
            systemInstruction |->
                IF Len(systemTexts) > 0
                THEN <<[parts |-> <<GeminiText(JoinNewline(systemTexts))>>]>>
                ELSE <<>>,
            generationConfig |->
                <<[temperature     |-> checkAndAssignOrDefault(openaiReq.temperature,
                                                               DefaultTemperature),
                   topP            |-> checkAndAssignOrDefault(openaiReq.top_p, DefaultTopP),
                   maxOutputTokens |-> checkAndAssignOrDefault(openaiReq.max_tokens,
                                                               DefaultGeminiMaxTokens)]>>,
            tools |->
                IF Len(openaiReq.tools) > 0
                THEN <<[functionDeclarations |->
                           [i \in 1..Len(openaiReq.tools) |->
                               GeminiDeclFromOpenAI(openaiReq.tools[i])]]>>
                ELSE <<>>])

-----------------------------------------------------------------------------
(* internal/convert: Gemini -> OpenAI request                              *)

\* the content parts one Gemini part adds in processGeminiPartsToOpenAIContent
OpenAIPartsFromGeminiPart(part) ==
    (IF part.text # "" THEN <<TextPart(part.text)>> ELSE <<>>)
    \o (IF part.inlineData # <<>>
        THEN <<ImagePart(DataURL(part.inlineData[1].mimeType, part.inlineData[1].data))>>
        ELSE <<>>)
    \o (IF part.fileData = <<>> THEN <<>>
        ELSE LET mime == part.fileData[1].mimeType
             IN  IF Len(mime) > 0 /\ mime[1] = "image/"
                 THEN <<ImagePart(part.fileData[1].fileUri)>>
                 ELSE IF Len(mime) > 0 /\ mime[1] = "audio/"
                      THEN <<TextPart("[Audio file: " \o JoinTokens(part.fileData[1].fileUri)
                                      \o "]")>>
                      ELSE <<>>)

RECURSIVE OpenAIPartsFromGemini(_)
OpenAIPartsFromGemini(parts) ==
    IF parts = <<>> THEN <<>>
    ELSE OpenAIPartsFromGeminiPart(Head(parts)) \o OpenAIPartsFromGemini(Tail(parts))

processGeminiPartsToOpenAIContent(parts) ==
    IF Len(parts) = 0 THEN ContentString("")
    ELSE LET contentParts  == OpenAIPartsFromGemini(parts)
             hasMultimodal == \E i \in 1..Len(parts) :
                                  parts[i].inlineData # <<>> \/ parts[i].fileData # <<>>
         IN  IF Len(contentParts) = 1 /\ contentParts[1].type = "text" /\ ~hasMultimodal
             THEN ContentString(contentParts[1].text)
             ELSE ContentParts(contentParts)

\* if role == models.RoleModel { role = models.RoleAssistant }
OpenAIRole(role) == IF role = RoleModel THEN RoleAssistant ELSE role

toOpenAIRequestFromGemini(geminiReq) ==
    LET si  == geminiReq.systemInstruction
        sys == IF si # <<>> /\ Len(si[1].parts) > 0
               THEN LET systemContent == processGeminiPartsToOpenAIContent(si[1].parts)
                    IN  IF systemContent # ContentString("")
                        THEN <<OpenAIMessage(RoleSystem, systemContent)>>
                        ELSE <<>>
               ELSE <<>>
        \* openaiContent != nil holds for every content: the interface value
        \* always carries a string or a []ContentPart
        rest == [i \in 1..Len(geminiReq.contents) |->
                    OpenAIMessage(OpenAIRole(geminiReq.contents[i].role),
                        processGeminiPartsToOpenAIContent(geminiReq.contents[i].parts))]
        gc  == geminiReq.generationConfig
    IN  Ok([kind        |-> "OpenAIRequest",
            model       |-> "gpt-3.5-turbo",
            messages    |-> sys \o rest,
            max_tokens  |-> IF gc # <<>> /\ gc[1].maxOutputTokens > 0
                            THEN gc[1].maxOutputTokens ELSE DefaultMaxTokens,
            temperature |-> IF gc # <<>> /\ gc[1].temperature > 0
                            THEN gc[1].temperature ELSE DefaultTemperature,
            top_p       |-> IF gc # <<>> /\ gc[1].topP > 0
                            THEN gc[1].topP ELSE DefaultTopP,
            stream      |-> FALSE,
            tools       |-> <<>>])

-----------------------------------------------------------------------------
(* internal/convert: Claude -> OpenAI request                              *)

\* the content parts one Claude block adds in processClaudeContentToOpenAI
OpenAIPartsFromClaudeBlock(block) ==
    CASE block.type = "text" ->
            IF block.text # "" THEN <<TextPart(block.text)>> ELSE <<>>
      [] block.type = "image" ->
            IF block.source # <<>> /\ block.source[1].type = "base64"
            THEN <<ImagePart(DataURL(block.source[1].media_type, block.source[1].data))>>
            ELSE <<>>
      [] OTHER -> <<>>

RECURSIVE OpenAIPartsFromClaude(_)
OpenAIPartsFromClaude(content) ==
    IF content = <<>> THEN <<>>
    ELSE OpenAIPartsFromClaudeBlock(Head(content)) \o OpenAIPartsFromClaude(Tail(content))

processClaudeContentToOpenAI(content) ==
    IF Len(content) = 0 THEN ContentString("")
    ELSE LET parts         == OpenAIPartsFromClaude(content)
             hasMultimodal == \E i \in 1..Len(parts) : parts[i].type = "image_url"
         IN  IF Len(parts) = 1 /\ parts[1].type = "text" /\ ~hasMultimodal
             THEN ContentString(parts[1].text)
             ELSE ContentParts(parts)

RECURSIVE SprintfParts(_)
\* fmt.Sprintf("%v", ...) of the elements of a decoded JSON array of text blocks
SprintfParts(parts) ==
    IF parts = <<>> THEN ""
    ELSE "map[text:" \o Head(parts).text \o " type:" \o Head(parts).type \o "]"
         \o (IF Len(parts) > 1 THEN " " ELSE "") \o SprintfParts(Tail(parts))

\* fmt.Sprintf("%v", item.Content)
SprintfV(content) ==
    CASE content.t = "string" -> content.s
      [] content.t = "nil"    -> "<nil>"
      [] OTHER                -> "[" \o SprintfParts(content.parts) \o "]"

RECURSIVE OpenAIToolMessages(_)
\* one tool message per tool_result block of a user message
OpenAIToolMessages(content) ==
    IF content = <<>> THEN <<>>
    ELSE (IF Head(content).type = "tool_result"
          THEN <<[role |-> RoleTool, content |-> ContentString(SprintfV(Head(content).content)),
                  tool_calls |-> <<>>, tool_call_id |-> Head(content).tool_use_id]>>
          ELSE <<>>)
         \o OpenAIToolMessages(Tail(content))

RECURSIVE OpenAIToolCalls(_)
\* one tool call per tool_use block of an assistant message
OpenAIToolCalls(content) ==
    IF content = <<>> THEN <<>>
    ELSE (IF Head(content).type = "tool_use"
          THEN <<ToolCall(Head(content).id, Head(content).name,
                          marshalJSON(Head(content).input))>>
          ELSE <<>>)
         \o OpenAIToolCalls(Tail(content))

\* the OpenAI messages one Claude message becomes.  openaiMsg.Content is never
\* the nil interface, so openaiMsg itself is always appended.
OpenAIMessagesFromClaude(msg) ==
    LET toolCalls == IF msg.role = RoleAssistant THEN OpenAIToolCalls(msg.content) ELSE <<>>
        openaiMsg == [role         |-> msg.role,
                      content      |-> IF Len(toolCalls) > 0 THEN ContentString("")
                                       ELSE processClaudeContentToOpenAI(msg.content),
                      tool_calls   |-> toolCalls,
                      tool_call_id |-> ""]
    IN  (IF msg.role = RoleUser THEN OpenAIToolMessages(msg.content) ELSE <<>>)
        \o <<openaiMsg>>

RECURSIVE OpenAIMessagesFromClaudeAll(_)
OpenAIMessagesFromClaudeAll(msgs) ==
    IF msgs = <<>> THEN <<>>
    ELSE OpenAIMessagesFromClaude(Head(msgs)) \o OpenAIMessagesFromClaudeAll(Tail(msgs))

OpenAIToolFromClaude(tool) == Tool(tool.name, tool.description, tool.input_schema)

toOpenAIRequestFromClaude(claudeReq) ==
    Ok([kind        |-> "OpenAIRequest",
        model       |-> claudeReq.model,
        messages    |-> (IF claudeReq.system # ""
                         THEN <<OpenAIMessage(RoleSystem, ContentString(claudeReq.system))>>
                         ELSE <<>>)
                        \o OpenAIMessagesFromClaudeAll(claudeReq.messages),
        max_tokens  |-> checkAndAssignOrDefault(claudeReq.max_tokens, DefaultMaxTokens),
        temperature |-> checkAndAssignOrDefault(claudeReq.temperature, DefaultTemperature),
        top_p       |-> checkAndAssignOrDefault(claudeReq.top_p, DefaultTopP),
        stream      |-> claudeReq.stream,
        tools       |-> [i \in 1..Len(claudeReq.tools) |->
                            OpenAIToolFromClaude(claudeReq.tools[i])]])

-----------------------------------------------------------------------------
(* internal/convert: the request directions left as stubs, and dispatch    *)

toClaudeRequestFromGemini(data) == Ok(ClaudeRequestZero)

toGeminiRequestFromClaude(data) == Ok(GeminiRequestZero)

\* the nested switch of ConvertRequest
RequestRule(data, fromProvider, toProvider) ==
    CASE toProvider = ProtocolOpenAI /\ fromProvider = ProtocolGemini ->
             toOpenAIRequestFromGemini(data)
      [] toProvider = ProtocolOpenAI /\ fromProvider = ProtocolClaude ->
             toOpenAIRequestFromClaude(data)
      [] toProvider = ProtocolClaude /\ fromProvider = ProtocolOpenAI ->
             toClaudeRequestFromOpenAI(data)
      [] toProvider = ProtocolClaude /\ fromProvider = ProtocolGemini ->
             toClaudeRequestFromGemini(data)
      [] toProvider = ProtocolGemini /\ fromProvider = ProtocolOpenAI ->
             toGeminiRequestFromOpenAI(data)
      [] toProvider = ProtocolGemini /\ fromProvider = ProtocolClaude ->
             toGeminiRequestFromClaude(data)
      [] OTHER -> Fail(UnsupportedErr("conversion", fromProvider, toProvider))

\* ConvertRequest without its same-protocol short circuit
ConvertRequestNoShortCircuit(data, fromProvider, toProvider) ==
    RequestRule(data, fromProvider, toProvider)

ConvertRequest(data, fromProvider, toProvider) ==
    IF fromProvider = toProvider THEN Ok(data)
    ELSE RequestRule(data, fromProvider, toProvider)

-----------------------------------------------------------------------------
(* internal/convert: responses                                             *)

Usage(prompt, completion, total) ==
    [prompt_tokens |-> prompt, completion_tokens |-> completion, total_tokens |-> total]

\* &models.ClaudeResponse{}
ClaudeResponseZero ==
    [kind |-> "ClaudeResponse", id |-> "", type |-> "", role |-> "", content |-> <<>>,
     model |-> "", stop_reason |-> "", usage |-> <<>>]

\* fmt.Sprintf("chatcmpl-%s", uuid.New().String())
NewChatID == "chatcmpl-" \o "uuid"

\* time.Now().Unix()
NowUnix == "now"

RECURSIVE GeminiPartTexts(_)
\* the non-empty texts of a part list, in order
GeminiPartTexts(parts) ==
    IF parts = <<>> THEN <<>>
    ELSE (IF Head(parts).text # "" THEN <<Head(parts).text>> ELSE <<>>)
         \o GeminiPartTexts(Tail(parts))

RECURSIVE GeminiCandidateTexts(_)
GeminiCandidateTexts(candidates) ==
    IF candidates = <<>> THEN <<>>
    ELSE GeminiPartTexts(Head(candidates).content.parts)
         \o GeminiCandidateTexts(Tail(candidates))

processGeminiResponseContent(resp) ==
    IF Len(resp.candidates) = 0 THEN ""
    ELSE JoinNewline(GeminiCandidateTexts(resp.candidates))

\* FinishReason of the choice built by toOpenAIChatCompletionFromGemini
GeminiFinishReasonToOpenAI(resp) == "stop"

\* response.Usage built from geminiResp.UsageMetadata
UsageFromGemini(um) ==
    Usage(um.promptTokenCount, um.candidatesTokenCount, um.totalTokenCount)

OpenAIResponseOf(model, content, finishReason, usage) ==
    [kind    |-> "OpenAIResponse",
     id      |-> NewChatID,
     object  |-> "chat.completion",
     created |-> NowUnix,
     model   |-> model,
     choices |-> <<[index         |-> 0,
                    message       |-> <<OpenAIMessage(RoleAssistant, content)>>,
                    finish_reason |-> finishReason]>>,
     usage   |-> usage]

toOpenAIChatCompletionFromGemini(geminiResp, model) ==
    Ok(OpenAIResponseOf(model,
                        ContentString(processGeminiResponseContent(geminiResp)),
                        GeminiFinishReasonToOpenAI(geminiResp),
                        IF geminiResp.usageMetadata # <<>>
                        THEN <<UsageFromGemini(geminiResp.usageMetadata[1])>>
                        ELSE <<>>))

RECURSIVE ClaudeResponseParts(_)
\* the text parts processClaudeResponseContent collects
ClaudeResponseParts(content) ==
    IF content = <<>> THEN <<>>
    ELSE LET block == Head(content)
             here  == CASE block.type = "text" -> <<TextPart(block.text)>>
                        [] block.type = "thinking" ->
                              <<TextPart("<thinking>" \o block.thinking \o "</thinking>")>>
                        [] OTHER -> <<>>
         IN  here \o ClaudeResponseParts(Tail(content))

processClaudeResponseContent(content) ==
    IF Len(content) = 0 THEN ContentString("")
    ELSE LET parts == ClaudeResponseParts(content)
         IN  IF Len(parts) = 1 /\ parts[1].type = "text"
             THEN ContentString(parts[1].text)
             ELSE ContentParts(parts)

mapClaudeStopReason(reason) ==
    CASE reason = "end_turn"      -> "stop"
      [] reason = "max_tokens"    -> "length"
      [] reason = "stop_sequence" -> "stop"
      [] OTHER                    -> "stop"

\* response.Usage built from claudeResp.Usage
UsageFromClaude(u) == Usage(u.input_tokens, u.output_tokens, u.input_tokens + u.output_tokens)

toOpenAIChatCompletionFromClaude(claudeResp, model) ==
    Ok(OpenAIResponseOf(model,
                        processClaudeResponseContent(claudeResp.content),
                        mapClaudeStopReason(claudeResp.stop_reason),
                        IF claudeResp.usage # <<>>
                        THEN <<UsageFromClaude(claudeResp.usage[1])>>
                        ELSE <<>>))

toClaudeChatCompletionFromOpenAI(data, model) == Ok(ClaudeResponseZero)

toClaudeChatCompletionFromGemini(data, model) == Ok(ClaudeResponseZero)

ConvertResponse(data, fromProvider, toProvider, model) ==
    IF fromProvider = toProvider THEN Ok(data)
    ELSE CASE toProvider = ProtocolOpenAI /\ fromProvider = ProtocolGemini ->
                 toOpenAIChatCompletionFromGemini(data, model)
           [] toProvider = ProtocolOpenAI /\ fromProvider = ProtocolClaude ->
                 toOpenAIChatCompletionFromClaude(data, model)
           [] toProvider = ProtocolClaude /\ fromProvider = ProtocolOpenAI ->
                 toClaudeChatCompletionFromOpenAI(data, model)
           [] toProvider = ProtocolClaude /\ fromProvider = ProtocolGemini ->
                 toClaudeChatCompletionFromGemini(data, model)
           [] OTHER -> Fail(UnsupportedErr("response conversion", fromProvider, toProvider))

-----------------------------------------------------------------------------
(* internal/convert: stream chunks and model lists                         *)

\* A Go string travelling as interface{}; s is its payload.
GoString(s) == [kind |-> "string", s |-> s]

ExpectedStringErr(vendor) == [what |-> "expected string chunk", from |-> vendor, to |-> ""]

\* StreamChunkOf that names the default model instead of the requested one
StreamChunkOfDefaultModel(text, model) ==
    [kind    |-> "StreamChunk",
     id      |-> NewChatID,
     object  |-> "chat.completion.chunk",
     created |-> NowUnix,
     model   |-> "gpt-3.5-turbo",
     choices |-> <<[index         |-> 0,
                    delta         |-> [content |-> text, tool_calls |-> <<>>],
                    finish_reason |-> ""]>>]

\* &models.StreamChunk{...} as built by toOpenAIStreamChunkFrom{Gemini,Claude}
StreamChunkOf(text, model) ==
    [kind    |-> "StreamChunk",
     id      |-> NewChatID,
     object  |-> "chat.completion.chunk",
     created |-> NowUnix,
     model   |-> model,
     choices |-> <<[index         |-> 0,
                    delta         |-> [content |-> text, tool_calls |-> <<>>],
                    finish_reason |-> ""]>>]

toOpenAIStreamChunkFromGemini(data, model) ==
    IF data.kind # "string" THEN Fail(ExpectedStringErr("Gemini"))
    ELSE Ok(StreamChunkOf(data.s, model))

toOpenAIStreamChunkFromClaude(data, model) ==
    IF data.kind # "string" THEN Fail(ExpectedStringErr("Claude"))
    ELSE Ok(StreamChunkOf(data.s, model))

toClaudeStreamChunkFromOpenAI(data, model) == Ok(NoVal)

toClaudeStreamChunkFromGemini(data, model) == Ok(NoVal)

ConvertStreamChunk(data, fromProvider, toProvider, model) ==
    IF fromProvider = toProvider THEN Ok(data)
    ELSE CASE toProvider = ProtocolOpenAI /\ fromProvider = ProtocolGemini ->
                 toOpenAIStreamChunkFromGemini(data, model)
           [] toProvider = ProtocolOpenAI /\ fromProvider = ProtocolClaude ->
                 toOpenAIStreamChunkFromClaude(data, model)
           [] toProvider = ProtocolClaude /\ fromProvider = ProtocolOpenAI ->
                 toClaudeStreamChunkFromOpenAI(data, model)
           [] toProvider = ProtocolClaude /\ fromProvider = ProtocolGemini ->
                 toClaudeStreamChunkFromGemini(data, model)
           [] OTHER -> Fail(UnsupportedErr("stream chunk conversion", fromProvider, toProvider))

ModelListOf(data) == [kind |-> "ModelList", object |-> "list", data |-> data]

toOpenAIModelListFromGemini(data) == Ok(ModelListOf(<<>>))

toOpenAIModelListFromClaude(data) == Ok(ModelListOf(<<>>))

ConvertModelList(data, fromProvider, toProvider) ==
    IF fromProvider = toProvider THEN Ok(data)
    ELSE CASE toProvider = ProtocolOpenAI /\ fromProvider = ProtocolGemini ->
                 toOpenAIModelListFromGemini(data)
           [] toProvider = ProtocolOpenAI /\ fromProvider = ProtocolClaude ->
                 toOpenAIModelListFromClaude(data)
           [] OTHER -> Fail(UnsupportedErr("model list conversion", fromProvider, toProvider))

\* models.ModelInfo; an id is a token sequence so that a path prefix can be
\* taken off it
ModelInfo(id, created, ownedBy) ==
    [id |-> id, object |-> "model", created |-> created, owned_by |-> ownedBy]

\* strings.TrimPrefix(modelID, "models/") under strings.HasPrefix
TrimModelsPrefix(id) == IF Len(id) > 0 /\ id[1] = "models/" THEN Tail(id) ELSE id

\* gemini Client.ListModels, from the names the upstream answered with
geminiListModels(names) ==
    ModelListOf([i \in 1..Len(names) |->
                    ModelInfo(TrimModelsPrefix(names[i]), NowUnix, "google")])

\* claude Client.ListModels: a static list
claudeListModels ==
    ModelListOf(<<ModelInfo(<<"claude-3-opus-20240229">>, NowUnix, "anthropic"),
                  ModelInfo(<<"claude-3-sonnet-20240229">>, NowUnix, "anthropic"),
                  ModelInfo(<<"claude-3-haiku-20240307">>, NowUnix, "anthropic"),
                  ModelInfo(<<"claude-3-5-sonnet-20241022">>, NowUnix, "anthropic")>>)

\* openai Client.ListModels: the list as the upstream answered
openAIListModels(infos) == ModelListOf(infos)

-----------------------------------------------------------------------------
(* Inputs of the converter: bounded sets of well-typed requests and        *)
(* responses in each dialect.                                              *)

MaxMsgs == 2
MaxHops == 2
MaxTok  == 2

GoodImageURL == <<"data:", "image/", "png", ";", "base64", ",", "QUJD">>

\* a data reference without the comma between header and payload
BadImageURL == <<"data:", "image/", "png", ";", "base64", "QUJD">>

\* an image named by its address
ImageAddress == <<"https://", "example.com/cat.png">>

WeatherSchema ==
    MapOf([type |-> "object", properties |-> [location |-> [type |-> "string"]]])

WeatherArgs == <<"{", "location", ":", "Tokyo", "}">>

ModelNames == {"m1"}

\* (max tokens, temperature, top_p): all absent, or all given
GenParams == {[max |-> 0, temp |-> 0, topP |-> 0], [max |-> 100, temp |-> 7, topP |-> 5]}

OpenAIMessages ==
    { OpenAIMessage(RoleSystem, ContentString("A")),
      OpenAIMessage(RoleSystem, ContentString("B")),
      OpenAIMessage(RoleUser, ContentString("hi")),
      OpenAIMessage(RoleAssistant, ContentString("ok")),
      OpenAIMessage(RoleUser, ContentParts(<<TextPart("see"), ImagePart(GoodImageURL)>>)),
      OpenAIMessage(RoleUser,
                    ContentParts(<<TextPart("a"), ImagePart(BadImageURL), TextPart("b")>>)),
      OpenAIMessage(RoleUser, ContentParts(<<ImagePart(ImageAddress)>>)),
      [OpenAIMessage(RoleAssistant, ContentString(""))
          EXCEPT !.tool_calls = <<ToolCall("call_1", "get_weather", WeatherArgs)>>],
      [OpenAIMessage(RoleAssistant, ContentNil)
          EXCEPT !.tool_calls = <<ToolCall("call_1", "get_weather", WeatherArgs)>>],
      [OpenAIMessage(RoleTool, ContentString("sunny")) EXCEPT !.tool_call_id = "call_1"] }

OpenAIToolLists == {<<>>, <<Tool("get_weather", "Get the current weather", WeatherSchema)>>}

OpenAIRequests ==
    { [kind |-> "OpenAIRequest", model |-> m, messages |-> msgs, max_tokens |-> g.max,
       temperature |-> g.temp, top_p |-> g.topP, stream |-> FALSE, tools |-> tools] :
      m \in ModelNames, msgs \in SeqsUpTo(OpenAIMessages, MaxMsgs), g \in GenParams,
      tools \in OpenAIToolLists }

ClaudeMessages ==
    { ClaudeMessage(RoleUser, <<ClaudeText("hi")>>),
      ClaudeMessage(RoleAssistant, <<ClaudeText("ok")>>),
      ClaudeMessage(RoleAssistant,
                    <<ClaudeToolUse("toolu_1", "get_weather",
                                    MapOf([location |-> "Tokyo"]))>>),
      ClaudeMessage(RoleUser, <<ClaudeToolResult("toolu_1", ContentString("sunny"))>>),
      ClaudeMessage(RoleUser,
                    <<ClaudeToolResult("toolu_1",
                                       ContentIfaces(<<[type |-> "text", text |-> "sunny"]>>))>>) }

ClaudeToolLists == {<<>>, <<ClaudeTool("get_weather", "Get weather information", WeatherSchema)>>}

ClaudeRequests ==
    { [kind |-> "ClaudeRequest", model |-> m, messages |-> msgs, system |-> sys,
       max_tokens |-> g.max, temperature |-> g.temp, top_p |-> g.topP, stream |-> FALSE,
       tools |-> tools] :
      m \in ModelNames, msgs \in SeqsUpTo(ClaudeMessages, MaxMsgs), sys \in {"", "S"},
      g \in GenParams, tools \in ClaudeToolLists }

GeminiContentTemplates ==
    { GeminiContent(RoleUser, <<GeminiText("hi")>>),
      GeminiContent(RoleModel, <<GeminiText("ok")>>),
      GeminiContent(RoleUser, <<GeminiText("see"), GeminiInline(<<"image/", "png">>, <<"QUJD">>)>>) }

GeminiRequests ==
    { [kind |-> "GeminiRequest", contents |-> cs, systemInstruction |-> si,
       generationConfig |-> gc, tools |-> tools] :
      cs \in SeqsUpTo(GeminiContentTemplates, MaxMsgs),
      si \in {<<>>, <<[parts |-> <<GeminiText("S")>>]>>},
      gc \in {<<>>} \cup {<<[temperature |-> g.temp, topP |-> g.topP,
                            maxOutputTokens |-> g.max]>> : g \in GenParams},
      tools \in {<<>>, <<[functionDeclarations |->
                            <<GeminiFunctionDeclaration("get_weather", "Get weather",
                                                        WeatherSchema)>>]>>} }

TokenCounts == 0..MaxTok

OpenAIResponses ==
    { [kind |-> "OpenAIResponse", id |-> "chatcmpl-123", object |-> "chat.completion",
       created |-> "then", model |-> m,
       choices |-> <<[index |-> 0,
                      message |-> <<OpenAIMessage(RoleAssistant, ContentString("fine"))>>,
                      finish_reason |-> fr]>>,
       usage |-> u] :
      m \in ModelNames, fr \in {"stop", "length", "tool_calls"},
      u \in {<<>>} \cup {<<Usage(p, c, p + c)>> : p, c \in TokenCounts} }

ClaudeResponses ==
    { [kind |-> "ClaudeResponse", id |-> "msg_1", type |-> "message", role |-> RoleAssistant,
       content |-> ct, model |-> m, stop_reason |-> sr, usage |-> u] :
      m \in ModelNames,
      ct \in SeqsUpTo({ClaudeText("fine"),
                       [ClaudeContentZero EXCEPT !.type = "thinking", !.thinking = "hm"]}, 2),
      sr \in {"end_turn", "max_tokens", "stop_sequence", "tool_use"},
      u \in {<<>>} \cup {<<[input_tokens |-> p, output_tokens |-> c]>> : p, c \in TokenCounts} }

GeminiResponses ==
    { [kind |-> "GeminiResponse",
       candidates |-> <<[content |-> GeminiContent(RoleModel, ps), finishReason |-> fr]>>,
       usageMetadata |-> u] :
      ps \in SeqsUpTo({GeminiText("fine"), GeminiText("too")}, 2),
      fr \in {"STOP", "MAX_TOKENS"},
      u \in {<<>>} \cup {<<[promptTokenCount |-> p, candidatesTokenCount |-> c,
                           totalTokenCount |-> t]>> : p, c \in TokenCounts,
                                                       t \in 0..(2 * MaxTok)} }

\* what a caller hands to ConvertStreamChunk: a string, or (mistyped) bytes
ChunkInputs ==
    {GoString("Hello"), GoString(" wor\n"), GoString(""), [kind |-> "bytes", s |-> "Hello"]}

GeminiModelNames == {<<"models/", "gemini-pro">>, <<"gemini-flash">>}

ModelListsOf(proto) ==
    CASE proto = ProtocolOpenAI ->
             {openAIListModels(l) :
                l \in SeqsUpTo({ModelInfo(<<"gpt-4">>, "then", "openai")}, 1)}
      [] proto = ProtocolClaude -> {claudeListModels}
      [] proto = ProtocolGemini ->
             {geminiListModels(names) : names \in SeqsUpTo(GeminiModelNames, 2)}
             \cup {ModelListOf(<<ModelInfo(<<"models/", "gemini-pro">>, "then", "google")>>)}

RequestsOf(proto) ==
    CASE proto = ProtocolOpenAI -> OpenAIRequests
      [] proto = ProtocolClaude -> ClaudeRequests
      [] proto = ProtocolGemini -> GeminiRequests

ResponsesOf(proto) ==
    CASE proto = ProtocolOpenAI -> OpenAIResponses
      [] proto = ProtocolClaude -> ClaudeResponses
      [] proto = ProtocolGemini -> GeminiResponses

-----------------------------------------------------------------------------
(* The converter as a state machine: an object enters in its own dialect   *)
(* and is handed from one Convert call to the next.                        *)

ConvIdle ==
    /\ op = "none"
    /\ origProto = ProtocolOpenAI
    /\ orig = NoVal
    /\ cur = Ok(NoVal)
    /\ path = <<>>

ConvInit ==
    /\ op \in {"request", "response", "chunk", "models"}
    /\ origProto \in Protocols
    /\ orig \in (CASE op = "request"  -> RequestsOf(origProto)
                   [] op = "response" -> ResponsesOf(origProto)
                   [] op = "chunk"    -> ChunkInputs
                   [] op = "models"   -> ModelListsOf(origProto))
    /\ cur = Ok(orig)
    /\ path = <<origProto>>

\* DoConvertRequest that builds its result in the object it was given
DoConvertRequestInPlace ==
    /\ op = "request"
    /\ Len(path) <= MaxHops
    /\ cur.err = NoErr
    /\ \E to \in Protocols :
          /\ cur' = ConvertRequest(cur.val, Last(path), to)
          /\ path' = Append(path, to)
    /\ orig' = IF Len(path) = 1 THEN cur'.val ELSE orig
    /\ UNCHANGED <<origProto, op>>
    /\ UNCHANGED outsideConv

\* s.converter.ConvertRequest(cur, from, to)
DoConvertRequest ==
    /\ op = "request"
    /\ Len(path) <= MaxHops
    /\ cur.err = NoErr
    /\ \E to \in Protocols :
          /\ cur' = ConvertRequest(cur.val, Last(path), to)
          /\ path' = Append(path, to)
    /\ UNCHANGED <<orig, origProto, op>>
    /\ UNCHANGED outsideConv

\* s.converter.ConvertResponse(cur, from, to, model)
DoConvertResponse ==
    /\ op = "response"
    /\ Len(path) <= MaxHops
    /\ cur.err = NoErr
    /\ \E to \in Protocols, model \in ModelNames :
          /\ cur' = ConvertResponse(cur.val, Last(path), to, model)
          /\ path' = Append(path, to)
    /\ UNCHANGED <<orig, origProto, op>>
    /\ UNCHANGED outsideConv

\* s.converter.ConvertStreamChunk(cur, from, to, model)
DoConvertStreamChunk ==
    /\ op = "chunk"
    /\ Len(path) <= MaxHops
    /\ cur.err = NoErr
    /\ \E to \in Protocols, model \in ModelNames :
          /\ cur' = ConvertStreamChunk(cur.val, Last(path), to, model)
          /\ path' = Append(path, to)
    /\ UNCHANGED <<orig, origProto, op>>
    /\ UNCHANGED outsideConv

\* s.converter.ConvertModelList(cur, from, to)
DoConvertModelList ==
    /\ op = "models"
    /\ Len(path) <= MaxHops
    /\ cur.err = NoErr
    /\ \E to \in Protocols :
          /\ cur' = ConvertModelList(cur.val, Last(path), to)
          /\ path' = Append(path, to)
    /\ UNCHANGED <<orig, origProto, op>>
    /\ UNCHANGED outsideConv

ConvNext ==
    \/ DoConvertRequest
    \/ DoConvertResponse
    \/ DoConvertStreamChunk
    \/ DoConvertModelList

-----------------------------------------------------------------------------
(* Provider stream readers (claudeStreamReader, openAIStreamReader,        *)
(* geminiStreamReader).  A text payload is named and sized, [name, bytes], *)
(* so that the 4096-byte read buffer of the handler splits a long text as  *)
(* the code does; a chunk [name, off, n] is n bytes of it from offset off. *)

BufferSize == 4096

Text(name, bytes) == [name |-> name, bytes |-> bytes]

EmptyText == Text("", 0)

EmptyBuf == [name |-> "", off |-> 0, rem |-> 0]

\* r.buffer = []byte(text)
BufOf(text) == [name |-> text.name, off |-> 0, rem |-> text.bytes]

\* n = copy(p, r.buffer): the chunk handed to the caller
CopyOut(buf) == [name |-> buf.name, off |-> buf.off, n |-> Min(buf.rem, BufferSize)]

\* r.buffer = r.buffer[n:]
Advance(buf) ==
    LET n == Min(buf.rem, BufferSize)
    IN  IF buf.rem = n THEN EmptyBuf ELSE [buf EXCEPT !.off = @ + n, !.rem = @ - n]

\* One line of a response body.  blank: nothing but white space; prefix: it
\* starts with "data: "; payload: what follows, which is not JSON ("bad"), the
\* literal [DONE] ("done") or a JSON object ("json").
Line(blank, prefix, form, obj) ==
    [blank |-> blank, prefix |-> prefix, form |-> form, obj |-> obj]

BlankLine == Line(TRUE, FALSE, "bad", NoVal)

MalformedData == Line(FALSE, TRUE, "bad", NoVal)

DoneLine == Line(FALSE, TRUE, "done", NoVal)

ClaudeEvent(type, deltaType, text, partialJSON, blockID) ==
    [kind |-> "event", type |-> type,
     delta |-> [type |-> deltaType, text |-> text, partial_json |-> partialJSON],
     content_block |-> [id |-> blockID]]

ClaudeTextDelta(text) ==
    Line(FALSE, TRUE, "json", ClaudeEvent("content_block_delta", "text_delta", text, "", ""))

ClaudeToolStart(id) ==
    Line(FALSE, TRUE, "json", ClaudeEvent("content_block_start", "", EmptyText, "", id))

ClaudeToolDelta(partialJSON) ==
    Line(FALSE, TRUE, "json",
         ClaudeEvent("content_block_delta", "input_json_delta", EmptyText, partialJSON, ""))

ClaudeBlockStop ==
    Line(FALSE, TRUE, "json", ClaudeEvent("content_block_stop", "", EmptyText, "", ""))

ClaudeMessageStop == Line(FALSE, TRUE, "json", ClaudeEvent("message_stop", "", EmptyText, "", ""))

OpenAIChunkLine(text) ==
    Line(FALSE, TRUE, "json",
         [kind |-> "chunk", choices |-> <<[delta |-> <<[content |-> text]>>]>>])

GeminiLine(texts) ==
    Line(FALSE, FALSE, "json",
         [kind |-> "response",
          candidates |-> <<[content |-> [parts |-> [i \in 1..Len(texts) |-> [text |-> texts[i]]]]]>>])

\* What a reader does with one line: skip it, return a text, or report EOF.
Skip == [kind |-> "continue", text |-> EmptyText]

Return(text) == [kind |-> "text", text |-> text]

EOF == [kind |-> "eof", text |-> EmptyText]

\* claudeReadLine that gives up the stream at a malformed event
claudeReadLineStopOnMalformed(line) ==
    IF line.blank THEN Skip
    ELSE IF ~line.prefix THEN Skip
    ELSE IF line.form # "json" THEN EOF
    ELSE CASE line.obj.type = "content_block_delta" ->
                 IF line.obj.delta.type = "text_delta" /\ line.obj.delta.text # EmptyText
                 THEN Return(line.obj.delta.text)
                 ELSE Skip
           [] line.obj.type = "message_stop" -> EOF
           [] OTHER -> Skip

\* the body of the for loop of claudeStreamReader.Read
claudeReadLine(line) ==
    IF line.blank THEN Skip
    ELSE IF ~line.prefix THEN Skip
    ELSE IF line.form # "json" THEN Skip
    ELSE CASE line.obj.type = "content_block_delta" ->
                 IF line.obj.delta.type = "text_delta" /\ line.obj.delta.text # EmptyText
                 THEN Return(line.obj.delta.text)
                 ELSE Skip
           [] line.obj.type = "message_stop" -> EOF
           [] OTHER -> Skip

\* the body of the for loop of openAIStreamReader.Read
openAIReadLine(line) ==
    IF line.blank THEN Skip
    ELSE IF ~line.prefix THEN Skip
    ELSE IF line.form = "done" THEN EOF
    ELSE IF line.form # "json" THEN Skip
    ELSE IF /\ Len(line.obj.choices) > 0
            /\ line.obj.choices[1].delta # <<>>
            /\ line.obj.choices[1].delta[1].content # EmptyText
         THEN Return(line.obj.choices[1].delta[1].content)
         ELSE Skip

RECURSIVE FirstText(_)
\* the first non-empty text among the parts
FirstText(parts) ==
    IF parts = <<>> THEN EmptyText
    ELSE IF Head(parts).text # EmptyText THEN Head(parts).text
    ELSE FirstText(Tail(parts))

RECURSIVE FirstCandidateText(_)
FirstCandidateText(candidates) ==
    IF candidates = <<>> THEN EmptyText
    ELSE IF FirstText(Head(candidates).content.parts) # EmptyText
         THEN FirstText(Head(candidates).content.parts)
    ELSE FirstCandidateText(Tail(candidates))

\* the body of the for loop of geminiStreamReader.Read: the whole line is
\* decoded as JSON, so a line with an SSE prefix does not decode
geminiReadLine(line) ==
    IF line.blank THEN Skip
    ELSE IF line.prefix \/ line.form # "json" THEN Skip
    ELSE IF FirstCandidateText(line.obj.candidates) # EmptyText
         THEN Return(FirstCandidateText(line.obj.candidates))
         ELSE Skip

\* the stream reader GenerateContentStream of the provider returns
ReadLine(proto, line) ==
    CASE proto = ProtocolClaude -> claudeReadLine(line)
      [] proto = ProtocolOpenAI -> openAIReadLine(line)
      [] proto = ProtocolGemini -> geminiReadLine(line)

-----------------------------------------------------------------------------
(* internal/server: handleStreamingResponse.  The goroutine reads chunks   *)
(* from the stream and sends them on the unbuffered dataChan; the handler  *)
(* receives them inside c.Stream and writes them to the client.            *)

MaxLines == 3

StreamModel == "m1"

\* the (fromProtocol, toProtocol) pairs the routes of server.go pass
StreamCallSites ==
    {<<ProtocolOpenAI, p>> : p \in Protocols}
    \cup {<<ProtocolGemini, ProtocolGemini>>, <<ProtocolClaude, ProtocolClaude>>}

ShortText == Text("Hello", 5)

\* longer than the read buffer, so stream.Read returns it in two chunks
LongText == Text("Long", BufferSize + 904)

ClaudeLines ==
    {BlankLine, MalformedData, ClaudeTextDelta(ShortText), ClaudeTextDelta(LongText),
     ClaudeToolDelta("{}"), ClaudeMessageStop}

\* a tool call streamed in three argument fragments, then the end of the message
ToolCallExample ==
    <<ClaudeToolStart("toolu_1"), ClaudeToolDelta("{\"loc"), ClaudeToolDelta("ation\":"),
      ClaudeToolDelta("\"Tokyo\"}"), ClaudeBlockStop, ClaudeMessageStop>>

OpenAILines ==
    {MalformedData, OpenAIChunkLine(ShortText), OpenAIChunkLine(EmptyText), DoneLine}

GeminiLines ==
    {BlankLine, Line(FALSE, FALSE, "bad", NoVal), GeminiLine(<<ShortText>>),
     GeminiLine(<<EmptyText, LongText>>)}

UpstreamsOf(proto) ==
    CASE proto = ProtocolClaude -> SeqsUpTo(ClaudeLines, MaxLines) \cup {ToolCallExample}
      [] proto = ProtocolOpenAI -> SeqsUpTo(OpenAILines, MaxLines)
      [] proto = ProtocolGemini -> SeqsUpTo(GeminiLines, MaxLines)

\* fmt.Sprintf("data: %s\n\n", body)
SSEData(body) == [sse |-> "data", body |-> body]

\* "data: [DONE]\n\n"
SSEDone == SSEData([kind |-> "[DONE]"])

NoMsg == [sse |-> "none", body |-> NoVal]

\* c.JSON(http.StatusInternalServerError, ...)
ErrorReply == [sse |-> "error", body |-> [kind |-> "500"]]

\* lines 235-252: what the goroutine sends for one chunk, if anything
ChunkMessages(chunk, from, to) ==
    IF from # to
    THEN LET r == ConvertStreamChunk(GoString(chunk), to, from, StreamModel)
         IN  IF r.err = NoErr /\ r.val # NoVal /\ r.val.kind = "StreamChunk"
             THEN <<SSEData(r.val)>>
             ELSE <<>>
    ELSE <<SSEData(GoString(chunk))>>

\* ClientWrite that puts the newest data in front of what is already out
ClientWriteInFront(w, data) == <<data>> \o w

\* w.Write([]byte(data))
ClientWrite(w, data) == Append(w, data)

StreamIdle ==
    /\ fromProtocol = ProtocolOpenAI
    /\ toProtocol = ProtocolOpenAI
    /\ upstream0 = <<>>
    /\ upstream = <<>>
    /\ rbuf = EmptyBuf
    /\ readLog = <<>>
    /\ gpc = "idle"
    /\ pending = NoMsg
    /\ dataClosed = FALSE
    /\ hpc = "idle"
    /\ ctxDone = FALSE
    /\ streamClosed = FALSE
    /\ written = <<>>

StreamInit ==
    /\ \E site \in StreamCallSites :
          /\ fromProtocol = site[1]
          /\ toProtocol = site[2]
    /\ upstream0 \in UpstreamsOf(toProtocol)
    /\ upstream = upstream0
    /\ rbuf = EmptyBuf
    /\ readLog = <<>>
    /\ gpc = "idle"
    /\ pending = NoMsg
    /\ dataClosed = FALSE
    /\ hpc = "start"
    /\ ctxDone = FALSE
    /\ streamClosed = FALSE
    /\ written = <<>>

\* lines 203, 216-221: the provider returns a stream; the goroutine starts and
\* the handler enters c.Stream
OpenStream ==
    /\ hpc = "start"
    /\ hpc' = "stream"
    /\ gpc' = "read"
    /\ UNCHANGED <<fromProtocol, toProtocol, upstream0, upstream, rbuf, readLog, pending,
                   dataClosed, ctxDone, streamClosed, written>>
    /\ UNCHANGED outsideStream

\* lines 203-207: GenerateContentStream fails
OpenStreamFails ==
    /\ hpc = "start"
    /\ hpc' = "returned"
    /\ written' = <<ErrorReply>>
    /\ UNCHANGED <<fromProtocol, toProtocol, upstream0, upstream, rbuf, readLog, gpc, pending,
                   dataClosed, ctxDone, streamClosed>>
    /\ UNCHANGED outsideStream

\* the goroutine, having got chunk from stream.Read with a nil error
GotChunk(chunk) ==
    LET msgs == ChunkMessages(chunk, fromProtocol, toProtocol)
    IN  /\ readLog' = Append(readLog, chunk)
        /\ IF msgs = <<>>
           THEN gpc' = "read" /\ pending' = NoMsg
           ELSE gpc' = "send" /\ pending' = msgs[1]

\* stream.Read: the reader still holds text from the last event
GoReadBuffered ==
    /\ gpc = "read"
    /\ rbuf.rem > 0
    /\ GotChunk(CopyOut(rbuf))
    /\ rbuf' = Advance(rbuf)
    /\ UNCHANGED <<fromProtocol, toProtocol, upstream0, upstream, dataClosed, hpc, ctxDone,
                   streamClosed, written>>
    /\ UNCHANGED outsideStream

\* stream.Read: the reader takes the next line of the body
GoReadLine ==
    /\ gpc = "read"
    /\ rbuf.rem = 0
    /\ upstream # <<>>
    /\ upstream' = Tail(upstream)
    /\ LET out == ReadLine(toProtocol, Head(upstream))
       IN  CASE out.kind = "continue" ->
                   UNCHANGED <<rbuf, readLog, gpc, pending>>
             [] out.kind = "text" ->
                   /\ GotChunk(CopyOut(BufOf(out.text)))
                   /\ rbuf' = Advance(BufOf(out.text))
             [] out.kind = "eof" ->
                   /\ gpc' = "sendDone"
                   /\ pending' = SSEDone
                   /\ UNCHANGED <<rbuf, readLog>>
    /\ UNCHANGED <<fromProtocol, toProtocol, upstream0, dataClosed, hpc, ctxDone,
                   streamClosed, written>>
    /\ UNCHANGED outsideStream

\* GoReadEOF that leaves the loop and returns without the done signal
GoReadEOFWithoutDone ==
    /\ gpc = "read"
    /\ rbuf.rem = 0
    /\ upstream = <<>>
    /\ gpc' = "exit"
    /\ UNCHANGED <<fromProtocol, toProtocol, upstream0, upstream, rbuf, readLog, pending,
                   dataClosed, hpc, ctxDone, streamClosed, written>>
    /\ UNCHANGED outsideStream

\* stream.Read: the body has ended (io.EOF)
GoReadEOF ==
    /\ gpc = "read"
    /\ rbuf.rem = 0
    /\ upstream = <<>>
    /\ gpc' = "sendDone"
    /\ pending' = SSEDone
    /\ UNCHANGED <<fromProtocol, toProtocol, upstream0, upstream, rbuf, readLog, dataClosed,
                   hpc, ctxDone, streamClosed, written>>
    /\ UNCHANGED outsideStream

\* stream.Read: the body read fails because the request context is cancelled
\* or the stream has been closed under the reader
GoReadError ==
    /\ gpc = "read"
    /\ rbuf.rem = 0
    /\ ctxDone \/ streamClosed
    /\ gpc' = "sendDone"
    /\ pending' = SSEDone
    /\ UNCHANGED <<fromProtocol, toProtocol, upstream0, upstream, rbuf, readLog, dataClosed,
                   hpc, ctxDone, streamClosed, written>>
    /\ UNCHANGED outsideStream

\* dataChan <- x meets case data, ok := <-dataChan: the handler writes data
Deliver ==
    /\ gpc \in {"send", "sendDone"}
    /\ hpc = "stream"
    /\ written' = ClientWrite(written, pending)
    /\ gpc' = IF gpc = "send" THEN "read" ELSE "exit"
    /\ pending' = NoMsg
    /\ UNCHANGED <<fromProtocol, toProtocol, upstream0, upstream, rbuf, readLog, dataClosed,
                   hpc, ctxDone, streamClosed>>
    /\ UNCHANGED outsideStream

\* the goroutine returns: the deferred close(doneChan), close(dataChan) run
GoExit ==
    /\ gpc = "exit"
    /\ gpc' = "closed"
    /\ dataClosed' = TRUE
    /\ UNCHANGED <<fromProtocol, toProtocol, upstream0, upstream, rbuf, readLog, pending,
                   hpc, ctxDone, streamClosed, written>>
    /\ UNCHANGED outsideStream

\* case data, ok := <-dataChan with ok false: the step returns false, c.Stream
\* returns and the deferred stream.Close() runs
HandlerSeesClosed ==
    /\ hpc = "stream"
    /\ dataClosed
    /\ hpc' = "returned"
    /\ streamClosed' = TRUE
    /\ UNCHANGED <<fromProtocol, toProtocol, upstream0, upstream, rbuf, readLog, gpc, pending,
                   dataClosed, ctxDone, written>>
    /\ UNCHANGED outsideStream

\* HandlerSeesCancel that looks at the context only when data has arrived
HandlerSeesCancelOnData ==
    /\ hpc = "stream"
    /\ ctxDone
    /\ gpc \in {"send", "sendDone"}
    /\ hpc' = "returned"
    /\ streamClosed' = TRUE
    /\ UNCHANGED <<fromProtocol, toProtocol, upstream0, upstream, rbuf, readLog, gpc, pending,
                   dataClosed, ctxDone, written>>
    /\ UNCHANGED outsideStream

\* case <-ctx.Done(): the step returns false, likewise
HandlerSeesCancel ==
    /\ hpc = "stream"
    /\ ctxDone
    /\ hpc' = "returned"
    /\ streamClosed' = TRUE
    /\ UNCHANGED <<fromProtocol, toProtocol, upstream0, upstream, rbuf, readLog, gpc, pending,
                   dataClosed, ctxDone, written>>
    /\ UNCHANGED outsideStream

\* the client goes away: the request context is cancelled
ClientCancel ==
    /\ hpc \in {"start", "stream"}
    /\ ~ctxDone
    /\ ctxDone' = TRUE
    /\ UNCHANGED <<fromProtocol, toProtocol, upstream0, upstream, rbuf, readLog, gpc, pending,
                   dataClosed, hpc, streamClosed, written>>
    /\ UNCHANGED outsideStream

StreamNext ==
    \/ OpenStream
    \/ OpenStreamFails
    \/ GoReadBuffered
    \/ GoReadLine
    \/ GoReadEOF
    \/ GoReadError
    \/ Deliver
    \/ GoExit
    \/ HandlerSeesClosed
    \/ HandlerSeesCancel
    \/ ClientCancel

-----------------------------------------------------------------------------
(* internal/auth: the token manager.  Time is counted in units of five     *)
(* minutes from 1 on; the zero time.Time, "no expiry", is 0.               *)

\* the goroutines that call GetToken
TokenCallers == {"g1", "g2"}

MaxTime == 3
MaxFetch == 2

\* how long a token of the token source may be valid
TokenLifetimes == {1, 2}

\* expiryBuffer of NewTokenManager: 5 * time.Minute
DefaultExpiryBuffer == 1

\* the values SetExpiryBuffer is called with
ExpiryBuffers == {0, 1, 2}

\* an *oauth2.Token; a nil pointer is <<>>
Token(access, expiry) == <<[access |-> access, expiry |-> expiry]>>

NoExpiry == 0

RefreshErr == [what |-> "failed to refresh token", from |-> "", to |-> ""]

\* shouldRefresh that looks at the expiry alone, without the buffer
shouldRefreshWithoutBuffer(token, timeNow, buffer) ==
    IF token = <<>> THEN TRUE
    ELSE IF token[1].expiry = NoExpiry THEN FALSE
    ELSE timeNow > token[1].expiry

\* tm.shouldRefresh(token), with time.Now() and tm.expiryBuffer as read
shouldRefresh(token, timeNow, buffer) ==
    IF token = <<>> THEN TRUE
    ELSE IF token[1].expiry = NoExpiry THEN FALSE
    ELSE timeNow + buffer > token[1].expiry

\* a call of GetToken that has not started
GetTokenIdle ==
    [pc |-> "idle", token |-> <<>>, seen |-> <<>>, fetched |-> FALSE, result |-> Ok(<<>>)]

TokenIdle ==
    /\ currentToken = <<>>
    /\ expiryBuffer = DefaultExpiryBuffer
    /\ tokenNow = 1
    /\ tokenCalls = 0
    /\ getCall = [g \in TokenCallers |-> GetTokenIdle]

\* a manager as NewTokenManager leaves it, or as the tests build it (without
\* a token, or with a token of any expiry)
TokenInit ==
    /\ currentToken \in {<<>>} \cup {Token(0, e) : e \in 0..3}
    /\ expiryBuffer = DefaultExpiryBuffer
    /\ tokenNow = 1
    /\ tokenCalls = 0
    /\ getCall = [g \in TokenCallers |-> GetTokenIdle]

\* GetToken: token := tm.currentToken, under the read lock
GetTokenRead(g) ==
    /\ getCall[g].pc = "idle"
    /\ getCall' = [getCall EXCEPT ![g] = [GetTokenIdle EXCEPT !.pc = "check",
                                                             !.token = currentToken]]
    /\ UNCHANGED <<currentToken, expiryBuffer, tokenNow, tokenCalls>>
    /\ UNCHANGED outsideToken

\* GetToken: if tm.shouldRefresh(token) { return tm.RefreshToken(ctx) };
\* return token, nil.  shouldRefresh reads tm.expiryBuffer with no lock held:
\* it sees the value before or after a concurrent SetExpiryBuffer.
GetTokenCheck(g) ==
    /\ getCall[g].pc = "check"
    /\ LET call == getCall[g]
           seen == <<[now |-> tokenNow, buffer |-> expiryBuffer]>>
       IN  getCall' = [getCall EXCEPT ![g] =
               IF shouldRefresh(call.token, tokenNow, expiryBuffer)
               THEN [call EXCEPT !.pc = "refresh", !.seen = seen]
               ELSE [call EXCEPT !.pc = "done", !.seen = seen, !.result = Ok(call.token)]]
    /\ UNCHANGED <<currentToken, expiryBuffer, tokenNow, tokenCalls>>
    /\ UNCHANGED outsideToken

\* RefreshToken under the write lock, tokenSource.Token() answering with a
\* token: tm.currentToken = token; return token, nil
RefreshTokenOk(g) ==
    /\ getCall[g].pc = "refresh"
    /\ tokenCalls < MaxFetch
    /\ \E expiry \in {NoExpiry} \cup {tokenNow + d : d \in TokenLifetimes} :
          LET token == Token(tokenCalls + 1, expiry)
          IN  /\ currentToken' = token
              /\ getCall' = [getCall EXCEPT ![g].pc = "done", ![g].fetched = TRUE,
                                            ![g].result = Ok(token)]
    /\ tokenCalls' = tokenCalls + 1
    /\ UNCHANGED <<expiryBuffer, tokenNow>>
    /\ UNCHANGED outsideToken

\* RefreshToken, tokenSource.Token() answering with an error
RefreshTokenFails(g) ==
    /\ getCall[g].pc = "refresh"
    /\ tokenCalls < MaxFetch
    /\ getCall' = [getCall EXCEPT ![g].pc = "done", ![g].fetched = TRUE,
                                  ![g].result = [val |-> <<>>, err |-> RefreshErr]]
    /\ tokenCalls' = tokenCalls + 1
    /\ UNCHANGED <<currentToken, expiryBuffer, tokenNow>>
    /\ UNCHANGED outsideToken

\* the caller has its answer and may call again
GetTokenReturn(g) ==
    /\ getCall[g].pc = "done"
    /\ getCall' = [getCall EXCEPT ![g] = GetTokenIdle]
    /\ UNCHANGED <<currentToken, expiryBuffer, tokenNow, tokenCalls>>
    /\ UNCHANGED outsideToken

\* SetExpiryBuffer(buffer)
SetExpiryBuffer ==
    /\ \E buffer \in ExpiryBuffers \ {expiryBuffer} : expiryBuffer' = buffer
    /\ UNCHANGED <<currentToken, tokenNow, tokenCalls, getCall>>
    /\ UNCHANGED outsideToken

\* time passes
TokenTick ==
    /\ tokenNow < MaxTime
    /\ tokenNow' = tokenNow + 1
    /\ UNCHANGED <<currentToken, expiryBuffer, tokenCalls, getCall>>
    /\ UNCHANGED outsideToken

TokenNext ==
    \/ \E g \in TokenCallers : GetTokenRead(g)
    \/ \E g \in TokenCallers : GetTokenCheck(g)
    \/ \E g \in TokenCallers : RefreshTokenOk(g)
    \/ \E g \in TokenCallers : RefreshTokenFails(g)
    \/ \E g \in TokenCallers : GetTokenReturn(g)
    \/ SetExpiryBuffer
    \/ TokenTick

-----------------------------------------------------------------------------
(* internal/cache: the cache manager over go-cache.  Time is counted in    *)
(* units of five minutes from 1 on; sizes in bytes.                        *)

CacheKeys == {"k1", "k2"}

CacheValues == {"a", "bb"}

MaxCacheTime == 3
MaxSets == 2
MaxGets == 2

\* maxSizeMB * 1024 * 1024 of NewCacheManager, scaled down: room for two
\* of the smaller values, so that a second Set need not evict
CacheMaxSize == 6

\* go-cache: cache.NoExpiration and cache.DefaultExpiration
NoExpiration == -1

DefaultExpiration == 0

\* the default expiration NewCacheManager is built with: 5 * time.Minute
CacheDefaultExpiration == 1

\* the durations Set is called with
CacheDurations == {NoExpiration, DefaultExpiration, 2}

\* cm.estimateSize(value): the length of the value's JSON text
estimateSize(value) == Len(value) + 2

\* go-cache Set: the time the item expires at; 0 for never
ExpirationOf(duration, timeNow) ==
    LET d == IF duration = DefaultExpiration THEN CacheDefaultExpiration ELSE duration
    IN  IF d > 0 THEN timeNow + d ELSE 0

\* go-cache: the item is past its expiration
ItemExpired(item, timeNow) == item.expiration > 0 /\ timeNow > item.expiration

\* go-cache Get
GoCacheGet(items, key, timeNow) ==
    IF items[key] = <<>> \/ ItemExpired(items[key][1], timeNow) THEN <<>> ELSE items[key]

\* go-cache Items(): the keys of the unexpired items
GoCacheItems(items, timeNow) ==
    {k \in DOMAIN items : items[k] # <<>> /\ ~ItemExpired(items[k][1], timeNow)}

\* the orders evictLRU's sort may leave the keys in: oldest access first,
\* items of equal access time in the order the map iteration gave them
RECURSIVE AccessOrders(_, _)
AccessOrders(items, keys) ==
    IF keys = {} THEN {<<>>}
    ELSE UNION {{<<k>> \o rest : rest \in AccessOrders(items, keys \ {k})} :
                   k \in {k \in keys : \A j \in keys :
                              items[k][1].accessedAt <= items[j][1].accessedAt}}

RECURSIVE EvictInOrder(_, _, _, _)
\* the eviction loop of evictLRU: [items, freed, evicted] after it
EvictInOrder(items, order, neededSize, acc) ==
    IF order = <<>> \/ acc.freed >= neededSize THEN acc
    ELSE LET k == Head(order)
         IN  EvictInOrder(items, Tail(order), neededSize,
                          [items   |-> [acc.items EXCEPT ![k] = <<>>],
                           freed   |-> acc.freed + items[k][1].size,
                           evicted |-> acc.evicted \cup {k}])

\* cm.evictLRU(neededSize): the outcomes it may have
evictLRU(items, neededSize, timeNow) ==
    {EvictInOrder(items, order, neededSize, [items |-> items, freed |-> 0, evicted |-> {}]) :
        order \in AccessOrders(items, GoCacheItems(items, timeNow))}

\* what is known of the latest Set of a key: <<>> before any Set
SetRecord(value, until, state) == <<[value |-> value, until |-> until, state |-> state]>>

MarkSets(latest, keys, state) ==
    [k \in DOMAIN latest |->
        IF k \in keys /\ latest[k] # <<>>
        THEN SetRecord(latest[k][1].value, latest[k][1].until, state)
        ELSE latest[k]]

NoGet == [key |-> "", value |-> "", found |-> FALSE]

CacheIdle ==
    /\ cacheItems = [k \in CacheKeys |-> <<>>]
    /\ cacheEnabled = TRUE
    /\ currentSize = 0
    /\ cacheStats = [hits |-> 0, misses |-> 0, evictions |-> 0]
    /\ cacheNow = 1
    /\ cacheSets = 0
    /\ lastGet = NoGet
    /\ latestSet = [k \in CacheKeys |-> <<>>]

\* NewCacheManager
CacheInit == CacheIdle

\* Delete that corrects the size and leaves the item in the cache
CacheDeleteSizeOnly ==
    /\ \E key \in CacheKeys :
          /\ GoCacheGet(cacheItems, key, cacheNow) # <<>>
          /\ currentSize' = currentSize - cacheItems[key][1].size
          /\ latestSet' = MarkSets(latestSet, {key}, "deleted")
    /\ UNCHANGED <<cacheItems, cacheEnabled, cacheStats, cacheNow, cacheSets, lastGet>>
    /\ UNCHANGED outsideCache

\* cm.Get(key)
CacheGet ==
    /\ cacheStats.hits + cacheStats.misses < MaxGets
    /\ \E key \in CacheKeys :
          IF ~cacheEnabled
          THEN /\ lastGet' = [NoGet EXCEPT !.key = key]
               /\ UNCHANGED <<cacheItems, cacheStats>>
          ELSE LET item == GoCacheGet(cacheItems, key, cacheNow)
               IN  IF item # <<>>
                   THEN /\ cacheStats' = [cacheStats EXCEPT !.hits = @ + 1]
                        /\ cacheItems' = [cacheItems EXCEPT ![key][1].accessedAt = cacheNow]
                        /\ lastGet' = [key |-> key, value |-> item[1].value, found |-> TRUE]
                   ELSE /\ cacheStats' = [cacheStats EXCEPT !.misses = @ + 1]
                        /\ lastGet' = [NoGet EXCEPT !.key = key]
                        /\ UNCHANGED cacheItems
    /\ UNCHANGED <<cacheEnabled, currentSize, cacheNow, cacheSets, latestSet>>
    /\ UNCHANGED outsideCache

\* cm.Set(key, value, duration)
CacheSet ==
    /\ cacheSets < MaxSets
    /\ cacheSets' = cacheSets + 1
    /\ \E key \in CacheKeys, value \in CacheValues, duration \in CacheDurations :
          LET size  == estimateSize(value)
              until == ExpirationOf(duration, cacheNow)
          IN  IF ~cacheEnabled
              THEN /\ latestSet' = [latestSet EXCEPT ![key] = SetRecord(value, until, "ignored")]
                   /\ UNCHANGED <<cacheItems, currentSize, cacheStats>>
              ELSE \E ev \in (IF currentSize + size > CacheMaxSize
                              THEN evictLRU(cacheItems, size, cacheNow)
                              ELSE {[items |-> cacheItems, freed |-> 0, evicted |-> {}]}) :
                      /\ cacheItems' = [ev.items EXCEPT ![key] =
                             <<[value |-> value, size |-> size, expiration |-> until,
                                accessedAt |-> cacheNow]>>]
                      /\ currentSize' = currentSize - ev.freed + size
                      /\ cacheStats' = [cacheStats EXCEPT
                                           !.evictions = @ + Cardinality(ev.evicted)]
                      /\ latestSet' = [MarkSets(latestSet, ev.evicted, "evicted")
                                          EXCEPT ![key] = SetRecord(value, until, "live")]
    /\ UNCHANGED <<cacheEnabled, cacheNow, lastGet>>
    /\ UNCHANGED outsideCache

\* cm.Delete(key)
CacheDelete ==
    /\ \E key \in CacheKeys :
          /\ GoCacheGet(cacheItems, key, cacheNow) # <<>>
          /\ currentSize' = currentSize - cacheItems[key][1].size
          /\ cacheItems' = [cacheItems EXCEPT ![key] = <<>>]
          /\ latestSet' = MarkSets(latestSet, {key}, "deleted")
    /\ UNCHANGED <<cacheEnabled, cacheStats, cacheNow, cacheSets, lastGet>>
    /\ UNCHANGED outsideCache

\* cm.Clear()
CacheClear ==
    /\ cacheItems # [k \in CacheKeys |-> <<>>] \/ currentSize # 0
    /\ cacheItems' = [k \in CacheKeys |-> <<>>]
    /\ currentSize' = 0
    /\ latestSet' = MarkSets(latestSet, CacheKeys, "deleted")
    /\ UNCHANGED <<cacheEnabled, cacheStats, cacheNow, cacheSets, lastGet>>
    /\ UNCHANGED outsideCache

\* go-cache's janitor: DeleteExpired()
CacheJanitor ==
    /\ \E k \in CacheKeys : cacheItems[k] # <<>> /\ ItemExpired(cacheItems[k][1], cacheNow)
    /\ cacheItems' = [k \in CacheKeys |->
                         IF cacheItems[k] # <<>> /\ ItemExpired(cacheItems[k][1], cacheNow)
                         THEN <<>> ELSE cacheItems[k]]
    /\ UNCHANGED <<cacheEnabled, currentSize, cacheStats, cacheNow, cacheSets, lastGet,
                   latestSet>>
    /\ UNCHANGED outsideCache

\* time passes
CacheTick ==
    /\ cacheNow < MaxCacheTime
    /\ cacheNow' = cacheNow + 1
    /\ UNCHANGED <<cacheItems, cacheEnabled, currentSize, cacheStats, cacheSets, lastGet,
                   latestSet>>
    /\ UNCHANGED outsideCache

CacheNext ==
    \/ CacheGet
    \/ CacheSet
    \/ CacheDelete
    \/ CacheClear
    \/ CacheJanitor
    \/ CacheTick

-----------------------------------------------------------------------------
(* The chat-completion handlers and the cache (internal/server)            *)

ChatModels == {"m1", "m2"}
DefaultProvider == "openai"
MaxRequests == 3

\* the requests clients send: the body's model and stream flag; the provider
\* is the configured default
ChatRequests == [provider : {DefaultProvider}, model : ChatModels, stream : BOOLEAN]

\* CacheMiddleware.CacheDuration for a completion path, in units of five minutes
CompletionCacheDuration == 1

\* cm.GenerateCacheKey: the MD5 of the provider, the model and the request;
\* distinct requests of the model have distinct keys
GenerateCacheKey(provider, model, req) == IF model = "m1" THEN "k1" ELSE "k2"

KeyOf(req) == GenerateCacheKey(req.provider, req.model, req)

Reply(req, status, via) == [request |-> <<req>>, status |-> status, via |-> via]

NoReply == [request |-> <<>>, status |-> 0, via |-> ""]

ServerIdle ==
    /\ answeredAt = [k \in CacheKeys |-> 0]
    /\ lastReply = NoReply
    /\ providerCalls = 0
    /\ chatRequests = 0

\* NewEnhancedServer: initializeCache
CachedServerInit == CacheInit /\ ServerIdle

\* Server.handleChatCompletions with the request body unread: the provider is
\* called and its answer, or its error, is written
AnswerFromProvider(req, ok) ==
    /\ providerCalls' = providerCalls + 1
    /\ lastReply' = Reply(req, IF ok THEN 200 ELSE 500, "provider")
    /\ answeredAt' = IF ok /\ ~req.stream
                     THEN [answeredAt EXCEPT ![KeyOf(req)] = cacheNow]
                     ELSE answeredAt

\* Server.handleChatCompletions after the body was read by an earlier
\* ShouldBindJSON: the second bind fails and 400 is written
AnswerBodyGone(req) ==
    /\ lastReply' = Reply(req, 400, "")
    /\ UNCHANGED <<providerCalls, answeredAt>>

\* POST /v1/chat/completions as the router serves it
HandleChatCompletions ==
    /\ chatRequests < MaxRequests
    /\ chatRequests' = chatRequests + 1
    /\ \E req \in ChatRequests, ok \in BOOLEAN : AnswerFromProvider(req, ok)
    /\ UNCHANGED cacheVars
    /\ UNCHANGED outsideServer

\* EnhancedServer.handleChatCompletionsWithCache
HandleChatCompletionsWithCache ==
    /\ chatRequests < MaxRequests
    /\ chatRequests' = chatRequests + 1
    /\ \E req \in ChatRequests, ok \in BOOLEAN :
          IF ~cacheEnabled
          THEN /\ AnswerFromProvider(req, ok)
               /\ UNCHANGED <<cacheItems, cacheStats, lastGet>>
          ELSE IF req.stream
          THEN /\ AnswerBodyGone(req)
               /\ UNCHANGED <<cacheItems, cacheStats, lastGet>>
          ELSE LET item == GoCacheGet(cacheItems, KeyOf(req), cacheNow)
               IN  IF item # <<>>
                   THEN /\ cacheStats' = [cacheStats EXCEPT !.hits = @ + 1]
                        /\ cacheItems' = [cacheItems EXCEPT
                                             ![KeyOf(req)][1].accessedAt = cacheNow]
                        /\ lastGet' = [key |-> KeyOf(req), value |-> item[1].value,
                                       found |-> TRUE]
                        /\ lastReply' = Reply(req, 200, "cache")
                        /\ UNCHANGED <<providerCalls, answeredAt>>
                   ELSE /\ cacheStats' = [cacheStats EXCEPT !.misses = @ + 1]
                        /\ lastGet' = [NoGet EXCEPT !.key = KeyOf(req)]
                        /\ UNCHANGED cacheItems
                        /\ AnswerBodyGone(req)
    /\ UNCHANGED <<cacheEnabled, currentSize, cacheNow, cacheSets, latestSet>>
    /\ UNCHANGED outsideServer

\* DELETE /cache/clear
HandleCacheClear ==
    /\ cacheItems' = [k \in CacheKeys |-> <<>>]
    /\ currentSize' = 0
    /\ latestSet' = MarkSets(latestSet, CacheKeys, "deleted")
    /\ answeredAt' = [k \in CacheKeys |-> 0]
    /\ UNCHANGED <<cacheEnabled, cacheStats, cacheNow, cacheSets, lastGet>>
    /\ UNCHANGED <<lastReply, providerCalls, chatRequests>>
    /\ UNCHANGED outsideServer

\* PUT /cache/enable
HandleCacheEnable ==
    /\ cacheEnabled' = TRUE
    /\ UNCHANGED <<cacheItems, currentSize, cacheStats, cacheNow, cacheSets, lastGet,
                   latestSet>>
    /\ UNCHANGED serverVars
    /\ UNCHANGED outsideServer

\* PUT /cache/disable
HandleCacheDisable ==
    /\ cacheEnabled' = FALSE
    /\ answeredAt' = [k \in CacheKeys |-> 0]
    /\ UNCHANGED <<cacheItems, currentSize, cacheStats, cacheNow, cacheSets, lastGet,
                   latestSet>>
    /\ UNCHANGED <<lastReply, providerCalls, chatRequests>>
    /\ UNCHANGED outsideServer

CachedServerNext ==
    \/ HandleChatCompletions
    \/ HandleChatCompletionsWithCache
    \/ HandleCacheClear
    \/ HandleCacheEnable
    \/ HandleCacheDisable
    \/ CacheTick

-----------------------------------------------------------------------------
(* The provider pool manager (pool.Manager)                                *)

PoolCallers == {"c1", "c2"}

\* the type whose pool has providers, a type whose pool is empty, and a type
\* the configuration does not name
PooledType == "openai"
EmptyType == "claude"
UnknownType == "nonexistent"
ConfiguredTypes == {PooledType, EmptyType}
ProviderTypes == ConfiguredTypes \cup {UnknownType}

ProviderUUIDs == <<"u1", "u2", "u3">>

\* WithMaxErrorCount(1)
MaxErrorCount == 1

\* MarkProviderUnhealthy is called for a provider until its ErrorCount is this
MaxErrors == 2

ProviderConfig(uuid, isHealthy) ==
    [uuid |-> uuid, isHealthy |-> isHealthy, errorCount |-> 0, hasErrorTime |-> FALSE]

NoProvidersErr == [what |-> "no providers available for type", from |-> "", to |-> ""]
NoHealthyErr == [what |-> "no healthy providers available for type", from |-> "", to |-> ""]

\* SelectProvider's return of nil and an error
NoProvider(err) == [val |-> "", err |-> err]

RECURSIVE AllProviders(_)
\* a selection that takes every provider of the pool for a healthy one
AllProviders(providers) ==
    IF providers = <<>> THEN <<>>
    ELSE <<providers[1].uuid>> \o AllProviders(Tail(providers))

RECURSIVE HealthyProviders(_)
\* SelectProvider's healthyProviders: the healthy ones in the order of the pool
HealthyProviders(providers) ==
    IF providers = <<>> THEN <<>>
    ELSE (IF providers[1].isHealthy THEN <<providers[1].uuid>> ELSE <<>>)
            \o HealthyProviders(Tail(providers))

\* an index update that forgets to advance
KeepIndex(index, n) == index

\* the index SelectProvider stores for the next call
AdvanceIndex(index, n) == (index + 1) % n

\* the position of the provider with this UUID in the pool: 0 if none
RECURSIVE PositionOf(_, _, _)
PositionOf(providers, uuid, from) ==
    IF from > Len(providers) THEN 0
    ELSE IF providers[from].uuid = uuid THEN from
    ELSE PositionOf(providers, uuid, from + 1)

HealthySet(ps) == {ps[PooledType][i].uuid : i \in {j \in DOMAIN ps[PooledType] :
                                                      ps[PooledType][j].isHealthy}}

SelectIdle ==
    [pc |-> "idle", type |-> "", index |-> 0, healthy |-> <<>>, overlapped |-> FALSE,
     result |-> Ok("")]

PoolIdle ==
    /\ pools = [t \in ConfiguredTypes |-> <<>>]
    /\ roundRobinIndex = [t \in ConfiguredTypes |-> 0]
    /\ selCall = [g \in PoolCallers |-> SelectIdle]
    /\ poolFatal = FALSE
    /\ streak = <<>>

\* NewManager: LoadConfig reads the pools, with the health flags the file gives
PoolInit ==
    /\ \E health \in [DOMAIN ProviderUUIDs -> BOOLEAN] :
          pools = [t \in ConfiguredTypes |->
                      IF t = PooledType
                      THEN [i \in DOMAIN ProviderUUIDs |->
                               ProviderConfig(ProviderUUIDs[i], health[i])]
                      ELSE <<>>]
    /\ roundRobinIndex = [t \in ConfiguredTypes |-> 0]
    /\ selCall = [g \in PoolCallers |-> SelectIdle]
    /\ poolFatal = FALSE
    /\ streak = <<>>

\* some goroutine is inside SelectProvider, holding the read lock
ReadLocked == \E g \in PoolCallers : selCall[g].pc = "picked"

\* the last entries of the history, as many as the pool has providers
Recent(s) == IF Len(s) > Len(ProviderUUIDs)
             THEN SubSeq(s, Len(s) - Len(ProviderUUIDs) + 1, Len(s)) ELSE s

\* SelectProvider up to the reading of the index; the calls that fail return
SelectProviderBegin(g) ==
    /\ ~poolFatal
    /\ selCall[g].pc # "picked"
    /\ \E type \in ProviderTypes :
          IF type \notin DOMAIN pools \/ pools[type] = <<>>
          THEN /\ selCall' = [selCall EXCEPT ![g] =
                     [SelectIdle EXCEPT !.pc = "done", !.type = type,
                                        !.result = NoProvider(NoProvidersErr)]]
               /\ UNCHANGED streak
          ELSE LET healthyProviders == HealthyProviders(pools[type])
               IN  IF healthyProviders = <<>>
                   THEN /\ selCall' = [selCall EXCEPT ![g] =
                              [SelectIdle EXCEPT !.pc = "done", !.type = type,
                                                 !.result = NoProvider(NoHealthyErr)]]
                        /\ UNCHANGED streak
                   ELSE /\ selCall' = [h \in PoolCallers |->
                              IF h = g
                              THEN [pc |-> "picked", type |-> type,
                                    index |-> roundRobinIndex[type] % Len(healthyProviders),
                                    healthy |-> healthyProviders,
                                    overlapped |-> ReadLocked,
                                    result |-> Ok("")]
                              ELSE IF selCall[h].pc = "picked"
                              THEN [selCall[h] EXCEPT !.overlapped = TRUE]
                              ELSE selCall[h]]
                        /\ streak' = IF ReadLocked THEN <<>> ELSE streak
    /\ UNCHANGED <<pools, roundRobinIndex, poolFatal>>
    /\ UNCHANGED outsidePool

\* SelectProvider from the writing of the index to the return (the usage
\* statistics of the selected provider, which nothing reads, are left out)
SelectProviderEnd(g) ==
    /\ ~poolFatal
    /\ selCall[g].pc = "picked"
    /\ LET call == selCall[g]
           selected == call.healthy[call.index + 1]
       IN  /\ roundRobinIndex' = [roundRobinIndex EXCEPT
                                     ![call.type] = AdvanceIndex(call.index, Len(call.healthy))]
           /\ selCall' = [selCall EXCEPT ![g].pc = "done", ![g].result = Ok(selected)]
           /\ streak' = IF call.overlapped THEN <<>> ELSE Recent(Append(streak, selected))
    /\ UNCHANGED <<pools, poolFatal>>
    /\ UNCHANGED outsidePool

\* two goroutines inside SelectProvider write m.roundRobinIndex at once and
\* the runtime stops the process
ConcurrentMapWrites ==
    /\ ~poolFatal
    /\ \A g \in PoolCallers : selCall[g].pc = "picked"
    /\ poolFatal' = TRUE
    /\ UNCHANGED <<pools, roundRobinIndex, selCall, streak>>
    /\ UNCHANGED outsidePool

\* MarkProviderUnhealthy(PooledType, uuid)
MarkProviderUnhealthy ==
    /\ ~poolFatal
    /\ ~ReadLocked
    /\ \E uuid \in {ProviderUUIDs[i] : i \in DOMAIN ProviderUUIDs} :
          LET i == PositionOf(pools[PooledType], uuid, 1)
              p == pools[PooledType][i]
          IN  /\ i # 0
              /\ p.errorCount < MaxErrors
              /\ pools' = [pools EXCEPT ![PooledType][i] =
                     [p EXCEPT !.errorCount = @ + 1,
                               !.hasErrorTime = TRUE,
                               !.isHealthy = IF p.errorCount + 1 >= MaxErrorCount
                                             THEN FALSE ELSE @]]
    /\ streak' = IF HealthySet(pools') # HealthySet(pools) THEN <<>> ELSE streak
    /\ UNCHANGED <<roundRobinIndex, selCall, poolFatal>>
    /\ UNCHANGED outsidePool

\* MarkProviderHealthy(PooledType, uuid), called directly or by
\* performHealthChecks for an unhealthy provider whose last error is old enough
MarkProviderHealthy ==
    /\ ~poolFatal
    /\ ~ReadLocked
    /\ \E uuid \in {ProviderUUIDs[i] : i \in DOMAIN ProviderUUIDs} :
          LET i == PositionOf(pools[PooledType], uuid, 1)
              p == pools[PooledType][i]
          IN  /\ i # 0
              /\ pools' = [pools EXCEPT ![PooledType][i] =
                     [p EXCEPT !.isHealthy = TRUE, !.errorCount = 0,
                               !.hasErrorTime = FALSE]]
    /\ streak' = IF HealthySet(pools') # HealthySet(pools) THEN <<>> ELSE streak
    /\ UNCHANGED <<roundRobinIndex, selCall, poolFatal>>
    /\ UNCHANGED outsidePool

PoolNext ==
    \/ \E g \in PoolCallers : SelectProviderBegin(g)
    \/ \E g \in PoolCallers : SelectProviderEnd(g)
    \/ ConcurrentMapWrites
    \/ MarkProviderUnhealthy
    \/ MarkProviderHealthy

-----------------------------------------------------------------------------
(* One WebSocket streaming request (internal/websocket)                    *)

MaxChunks == 3

\* the capacity of client.send, scaled down
SendBufferSize == 2

MessageTypeStream == "stream"
MessageTypeStreamEnd == "stream_end"
MessageTypeError == "error"

\* a stream message and the chunk it carries
StreamMessage(chunk) == [type |-> MessageTypeStream, response |-> chunk]

EndMessage == [type |-> MessageTypeStreamEnd, response |-> 0]

ErrorMessage == [type |-> MessageTypeError, response |-> 0]

\* the outcome of the select in Client.SendMessage: the message is queued if
\* the channel has room and is dropped otherwise
SendMessage(send, message) ==
    IF Len(send) < SendBufferSize THEN Append(send, message) ELSE send

WsIdle ==
    /\ wsUpstream = <<>>
    /\ wsReadFails = FALSE
    /\ wsClosed = FALSE
    /\ wsReadLog = <<>>
    /\ wsHandler = "idle"
    /\ wsPc = "idle"
    /\ wsToSend = <<>>
    /\ wsSend = <<>>
    /\ wsReceived = <<>>

\* a connected client sends a streaming request; the provider's stream will
\* return some chunks and then io.EOF or an error
WsInit ==
    /\ \E n \in 0..MaxChunks : wsUpstream = [i \in 1..n |-> i]
    /\ wsReadFails \in BOOLEAN
    /\ wsClosed = FALSE
    /\ wsReadLog = <<>>
    /\ wsHandler = "idle"
    /\ wsPc = "idle"
    /\ wsToSend = <<>>
    /\ wsSend = <<>>
    /\ wsReceived = <<>>

\* handleStreamingRequest: GenerateContentStream succeeds and the goroutine
\* is started
WsStartStream ==
    /\ wsHandler = "idle"
    /\ wsHandler' = "spawned"
    /\ wsPc' = "read"
    /\ UNCHANGED <<wsUpstream, wsReadFails, wsClosed, wsReadLog, wsToSend, wsSend, wsReceived>>
    /\ UNCHANGED outsideWs

\* handleStreamingRequest: GenerateContentStream fails, sendError, return
WsStartFails ==
    /\ wsHandler = "idle"
    /\ wsHandler' = "returned"
    /\ wsSend' = SendMessage(wsSend, ErrorMessage)
    /\ UNCHANGED <<wsUpstream, wsReadFails, wsClosed, wsReadLog, wsPc, wsToSend, wsReceived>>
    /\ UNCHANGED outsideWs

\* handleStreamingRequest returns: the deferred stream.Close() runs
WsHandlerReturns ==
    /\ wsHandler = "spawned"
    /\ wsHandler' = "returned"
    /\ wsClosed' = TRUE
    /\ UNCHANGED <<wsUpstream, wsReadFails, wsReadLog, wsPc, wsToSend, wsSend, wsReceived>>
    /\ UNCHANGED outsideWs

\* the goroutine's stream.Read and what it decides to send
WsRead ==
    /\ wsPc = "read"
    /\ wsPc' = "send"
    /\ IF wsClosed \/ (wsUpstream = <<>> /\ wsReadFails)
       THEN /\ wsToSend' = <<ErrorMessage, EndMessage>>
            /\ UNCHANGED <<wsUpstream, wsReadLog>>
       ELSE IF wsUpstream = <<>>
       THEN /\ wsToSend' = <<EndMessage>>
            /\ UNCHANGED <<wsUpstream, wsReadLog>>
       ELSE /\ wsToSend' = <<StreamMessage(Head(wsUpstream))>>
            /\ wsReadLog' = Append(wsReadLog, Head(wsUpstream))
            /\ wsUpstream' = Tail(wsUpstream)
    /\ UNCHANGED <<wsReadFails, wsClosed, wsHandler, wsSend, wsReceived>>
    /\ UNCHANGED outsideWs

\* the goroutine's client.SendMessage; after the stream_end message it ends
WsSend ==
    /\ wsPc = "send"
    /\ wsSend' = SendMessage(wsSend, Head(wsToSend))
    /\ wsToSend' = Tail(wsToSend)
    /\ wsPc' = IF Tail(wsToSend) # <<>> THEN "send"
               ELSE IF Head(wsToSend) = EndMessage THEN "ended"
               ELSE "read"
    /\ UNCHANGED <<wsUpstream, wsReadFails, wsClosed, wsReadLog, wsHandler, wsReceived>>
    /\ UNCHANGED outsideWs

\* writePump: a message is taken from the channel and written in one frame
\* with the messages queued behind it
WritePump ==
    /\ wsSend # <<>>
    /\ \E k \in 1..Len(wsSend) :
          /\ wsReceived' = wsReceived \o SubSeq(wsSend, 1, k)
          /\ wsSend' = SubSeq(wsSend, k + 1, Len(wsSend))
    /\ UNCHANGED <<wsUpstream, wsReadFails, wsClosed, wsReadLog, wsHandler, wsPc, wsToSend>>
    /\ UNCHANGED outsideWs

WsNext ==
    \/ WsStartStream
    \/ WsStartFails
    \/ WsHandlerReturns
    \/ WsRead
    \/ WsSend
    \/ WritePump

-----------------------------------------------------------------------------
(* The load balancer and its health checker (internal/loadbalancer)        *)

InstanceIDs == {"i1", "i2", "i3"}
Weights == {0, 1, 2}
MaxIndex == 6
MaxChecks == 1

AlgorithmRoundRobin == "round_robin"
AlgorithmWeighted == "weighted"

\* the algorithms the module follows; the others take no turns
Algorithms == {AlgorithmRoundRobin, AlgorithmWeighted}

Instance(id, weight) == [id |-> id, weight |-> weight, isHealthy |-> TRUE]

RECURSIVE getHealthyInstances(_)
getHealthyInstances(instances) ==
    IF instances = <<>> THEN <<>>
    ELSE (IF instances[1].isHealthy THEN <<instances[1]>> ELSE <<>>)
            \o getHealthyInstances(Tail(instances))

RECURSIVE TotalWeight(_)
TotalWeight(instances) ==
    IF instances = <<>> THEN 0 ELSE instances[1].weight + TotalWeight(Tail(instances))

\* selectRoundRobin, given the value atomic.AddUint64 returned
selectRoundRobin(instances, counter) == instances[(counter % Len(instances)) + 1]

RECURSIVE WalkWeights(_, _, _, _)
\* the loop of selectWeighted from the instance at position i
WalkWeights(instances, index, currentWeight, i) ==
    IF i > Len(instances) THEN instances[Len(instances)]
    ELSE IF index < currentWeight + instances[i].weight THEN instances[i]
    ELSE WalkWeights(instances, index, currentWeight + instances[i].weight, i + 1)

\* a selectWeighted whose comparison is off by one
selectWeightedOffByOne(instances, counter) ==
    IF TotalWeight(instances) = 0 THEN selectRoundRobin(instances, counter)
    ELSE WalkWeights(instances, (counter % TotalWeight(instances)) - 1, 0, 1)

\* selectWeighted, given the value atomic.AddUint64 returned
selectWeighted(instances, counter) ==
    IF TotalWeight(instances) = 0 THEN selectRoundRobin(instances, counter)
    ELSE WalkWeights(instances, counter % TotalWeight(instances), 0, 1)

RECURSIVE InstancePosition(_, _, _)
\* the position of the instance with this ID: 0 if there is none
InstancePosition(instances, id, from) ==
    IF from > Len(instances) THEN 0
    ELSE IF instances[from].id = id THEN from
    ELSE InstancePosition(instances, id, from + 1)

\* the instances without the one at position i
WithoutPosition(instances, i) ==
    SubSeq(instances, 1, i - 1) \o SubSeq(instances, i + 1, Len(instances))

\* the effect of UpdateInstanceHealth(instanceID, healthy) on the instances
\* and the metrics
UpdateInstanceHealth(instances, metrics, instanceID, healthy) ==
    LET i == InstancePosition(instances, instanceID, 1)
    IN  IF i # 0 /\ instances[i].isHealthy # healthy
        THEN [instances |-> [instances EXCEPT ![i].isHealthy = healthy],
              metrics   |-> [metrics EXCEPT !.healthyInstances =
                                IF healthy THEN @ + 1 ELSE @ - 1]]
        ELSE [instances |-> instances, metrics |-> metrics]

\* the longest history a claim looks at
MaxStreak == Cardinality(InstanceIDs) * 2

LatestSelections(s) == IF Len(s) > MaxStreak
                       THEN SubSeq(s, Len(s) - MaxStreak + 1, Len(s)) ELSE s

\* the history goes on while the healthy instances stay what they are
StreakAfter(instances) ==
    IF getHealthyInstances(instances) = getHealthyInstances(lbInstances)
    THEN lbStreak ELSE <<>>

LbIdle ==
    /\ lbInstances = <<>>
    /\ lbAlgorithm = AlgorithmRoundRobin
    /\ currentIndex = 0
    /\ lbMetrics = [healthyInstances |-> 0, totalInstances |-> 0]
    /\ lbChecks = 0
    /\ lbStreak = <<>>

\* NewLoadBalancer(algorithm)
LbInit ==
    /\ lbInstances = <<>>
    /\ lbAlgorithm \in Algorithms
    /\ currentIndex = 0
    /\ lbMetrics = [healthyInstances |-> 0, totalInstances |-> 0]
    /\ lbChecks = 0
    /\ lbStreak = <<>>

\* lb.AddInstance(id, provider, config, weight)
AddInstance ==
    /\ \E id \in InstanceIDs, weight \in Weights :
          /\ InstancePosition(lbInstances, id, 1) = 0
          /\ lbInstances' = Append(lbInstances, Instance(id, weight))
          /\ lbMetrics' = [healthyInstances |-> lbMetrics.healthyInstances + 1,
                           totalInstances   |-> lbMetrics.totalInstances + 1]
    /\ lbStreak' = <<>>
    /\ UNCHANGED <<lbAlgorithm, currentIndex, lbChecks>>
    /\ UNCHANGED outsideLb

\* lb.RemoveInstance(id)
RemoveInstance ==
    /\ \E id \in InstanceIDs :
          LET i == InstancePosition(lbInstances, id, 1)
          IN  /\ i # 0
              /\ lbInstances' = WithoutPosition(lbInstances, i)
              /\ lbMetrics' = [healthyInstances |->
                                  IF lbInstances[i].isHealthy
                                  THEN lbMetrics.healthyInstances - 1
                                  ELSE lbMetrics.healthyInstances,
                               totalInstances |-> lbMetrics.totalInstances - 1]
    /\ lbStreak' = StreakAfter(lbInstances')
    /\ UNCHANGED <<lbAlgorithm, currentIndex, lbChecks>>
    /\ UNCHANGED outsideLb

\* lb.SelectInstance(ctx, clientIP); the request counters are left out
SelectInstance ==
    /\ currentIndex < MaxIndex
    /\ getHealthyInstances(lbInstances) # <<>>
    /\ LET healthyInstances == getHealthyInstances(lbInstances)
           counter == currentIndex + 1
           selected == IF lbAlgorithm = AlgorithmWeighted
                       THEN selectWeighted(healthyInstances, counter)
                       ELSE selectRoundRobin(healthyInstances, counter)
       IN  /\ currentIndex' = counter
           /\ lbStreak' = LatestSelections(Append(lbStreak, selected.id))
    /\ UNCHANGED <<lbInstances, lbAlgorithm, lbMetrics, lbChecks>>
    /\ UNCHANGED outsideLb

\* lb.UpdateInstanceHealth(instanceID, healthy), called directly
DoUpdateInstanceHealth ==
    /\ \E id \in InstanceIDs, healthy \in BOOLEAN :
          LET after == UpdateInstanceHealth(lbInstances, lbMetrics, id, healthy)
          IN  /\ after.instances # lbInstances
              /\ lbInstances' = after.instances
              /\ lbMetrics' = after.metrics
    /\ lbStreak' = StreakAfter(lbInstances')
    /\ UNCHANGED <<lbAlgorithm, currentIndex, lbChecks>>
    /\ UNCHANGED outsideLb

\* hc.checkInstance(instance) finds the health of a registered instance
\* changed: it writes instance.IsHealthy and then runs the callback the
\* server registers, which calls lb.UpdateInstanceHealth
CheckInstance ==
    /\ lbChecks < MaxChecks
    /\ lbChecks' = lbChecks + 1
    /\ \E i \in DOMAIN lbInstances :
          LET healthy == ~lbInstances[i].isHealthy
              flagSet == [lbInstances EXCEPT ![i].isHealthy = healthy]
              after == UpdateInstanceHealth(flagSet, lbMetrics, lbInstances[i].id, healthy)
          IN  /\ lbInstances' = after.instances
              /\ lbMetrics' = after.metrics
    /\ lbStreak' = StreakAfter(lbInstances')
    /\ UNCHANGED <<lbAlgorithm, currentIndex>>
    /\ UNCHANGED outsideLb

\* lb.SetAlgorithm(algorithm)
SetAlgorithm ==
    /\ \E algorithm \in Algorithms \ {lbAlgorithm} : lbAlgorithm' = algorithm
    /\ lbStreak' = <<>>
    /\ UNCHANGED <<lbInstances, currentIndex, lbMetrics, lbChecks>>
    /\ UNCHANGED outsideLb

LbNext ==
    \/ AddInstance
    \/ RemoveInstance
    \/ SelectInstance
    \/ DoUpdateInstanceHealth
    \/ CheckInstance
    \/ SetAlgorithm

-----------------------------------------------------------------------------
(* The WebSocket hub and its clients (internal/websocket)                  *)

HubClientIDs == {"c1", "c2"}

MessageTypeHeartbeat == "heartbeat"
MessageTypeAuthenticated == "authenticated"

NoPanic == ""
SendOnClosed == "send on closed channel"
CloseOfClosed == "close of closed channel"

\* a message of the hub or of a handler: its type stands for it
HubMessage(type) == [type |-> type, response |-> 0]

\* `client.send <- data` in a select with a default case, on a channel that
\* close has been called on `closes` times: a send on a closed channel panics
ChanSend(send, closes, message) ==
    IF closes > 0
    THEN [send |-> send, panic |-> SendOnClosed]
    ELSE [send |-> SendMessage(send, message), panic |-> NoPanic]

\* close(client.send): closing a closed channel panics
ChanClose(closes) == IF closes > 0 THEN CloseOfClosed ELSE NoPanic

HubIdle ==
    /\ hubClients = {}
    /\ hubRun = "run"
    /\ clientSend = [c \in HubClientIDs |-> <<>>]
    /\ clientCloses = [c \in HubClientIDs |-> 0]
    /\ connClosed = [c \in HubClientIDs |-> FALSE]
    /\ readPumpPc = [c \in HubClientIDs |-> "new"]
    /\ writePumpPc = [c \in HubClientIDs |-> "new"]
    /\ streamPc = [c \in HubClientIDs |-> "idle"]
    /\ hubPanic = NoPanic

\* NewHub and go hub.Run(ctx); no client has connected yet
HubInit == HubIdle

\* client.SendMessage(message) by a goroutine other than the hub's
ClientSendMessage(c, type) ==
    LET r == ChanSend(clientSend[c], clientCloses[c], HubMessage(type))
    IN  /\ clientSend' = [clientSend EXCEPT ![c] = r.send]
        /\ hubPanic' = r.panic

\* HandleWebSocket: the connection is upgraded, the client is handed to the
\* hub (case client := <-h.register, with the welcome message) and the two
\* pumps are started
HandleWebSocket(c) ==
    /\ hubPanic = NoPanic
    /\ hubRun = "run"
    /\ readPumpPc[c] = "new"
    /\ hubClients' = hubClients \cup {c}
    /\ ClientSendMessage(c, MessageTypeAuthenticated)
    /\ readPumpPc' = [readPumpPc EXCEPT ![c] = "run"]
    /\ writePumpPc' = [writePumpPc EXCEPT ![c] = "run"]
    /\ UNCHANGED <<hubRun, clientCloses, connClosed, streamPc>>
    /\ UNCHANGED outsideHub

\* readPump: ReadMessage returns a heartbeat, which is echoed
ReadPumpHeartbeat(c) ==
    /\ hubPanic = NoPanic
    /\ readPumpPc[c] = "run"
    /\ ~connClosed[c]
    /\ ClientSendMessage(c, MessageTypeHeartbeat)
    /\ UNCHANGED <<hubClients, hubRun, clientCloses, connClosed, readPumpPc, writePumpPc,
                   streamPc>>
    /\ UNCHANGED outsideHub

\* readPump: ReadMessage returns a streaming request; handleStreamingRequest
\* starts the goroutine that forwards the stream and returns
ReadPumpStreamRequest(c) ==
    /\ hubPanic = NoPanic
    /\ readPumpPc[c] = "run"
    /\ ~connClosed[c]
    /\ streamPc[c] = "idle"
    /\ streamPc' = [streamPc EXCEPT ![c] = "run"]
    /\ UNCHANGED <<hubClients, hubRun, clientSend, clientCloses, connClosed, readPumpPc,
                   writePumpPc, hubPanic>>
    /\ UNCHANGED outsideHub

\* the goroutine of handleStreamingRequest: a chunk was read and is sent
StreamSendChunk(c) ==
    /\ hubPanic = NoPanic
    /\ streamPc[c] = "run"
    /\ ClientSendMessage(c, MessageTypeStream)
    /\ UNCHANGED <<hubClients, hubRun, clientCloses, connClosed, readPumpPc, writePumpPc,
                   streamPc>>
    /\ UNCHANGED outsideHub

\* the goroutine of handleStreamingRequest: Read fails or ends; the
\* stream_end message is sent and the goroutine ends
StreamSendEnd(c) ==
    /\ hubPanic = NoPanic
    /\ streamPc[c] = "run"
    /\ ClientSendMessage(c, MessageTypeStreamEnd)
    /\ streamPc' = [streamPc EXCEPT ![c] = "done"]
    /\ UNCHANGED <<hubClients, hubRun, clientCloses, connClosed, readPumpPc, writePumpPc>>
    /\ UNCHANGED outsideHub

\* readPump: ReadMessage fails (the peer has gone, the read deadline has
\* passed or the connection was closed); the deferred function starts and
\* waits for the hub to receive from h.unregister
ReadPumpFails(c) ==
    /\ hubPanic = NoPanic
    /\ readPumpPc[c] = "run"
    /\ readPumpPc' = [readPumpPc EXCEPT ![c] = "unregister"]
    /\ UNCHANGED <<hubClients, hubRun, clientSend, clientCloses, connClosed, writePumpPc,
                   streamPc, hubPanic>>
    /\ UNCHANGED outsideHub

\* Hub.Run, case client := <-h.unregister; readPump's deferred function goes
\* on to close the connection
HubUnregister(c) ==
    /\ hubPanic = NoPanic
    /\ hubRun = "run"
    /\ readPumpPc[c] = "unregister"
    /\ readPumpPc' = [readPumpPc EXCEPT ![c] = "done"]
    /\ connClosed' = [connClosed EXCEPT ![c] = TRUE]
    /\ IF c \in hubClients
       THEN /\ hubClients' = hubClients \ {c}
            /\ clientCloses' = [clientCloses EXCEPT ![c] = @ + 1]
            /\ hubPanic' = ChanClose(clientCloses[c])
       ELSE UNCHANGED <<hubClients, clientCloses, hubPanic>>
    /\ UNCHANGED <<hubRun, clientSend, writePumpPc, streamPc>>
    /\ UNCHANGED outsideHub

\* what broadcastToAll does with one client: the message is queued, or the
\* channel is full and the client is closed and removed
BroadcastFull(c) == Len(clientSend[c]) >= SendBufferSize

\* the first panic among the clients' outcomes, NoPanic if there is none
FirstPanic(panics) ==
    IF panics \subseteq {NoPanic} THEN NoPanic ELSE CHOOSE p \in panics : p # NoPanic

\* Hub.Run, case <-ticker.C: broadcastToAll(heartbeat)
HubHeartbeat ==
    /\ hubPanic = NoPanic
    /\ hubRun = "run"
    /\ hubClients # {}
    /\ LET full == {c \in hubClients : clientCloses[c] = 0 /\ BroadcastFull(c)}
           sent == [c \in hubClients \ full |->
                       ChanSend(clientSend[c], clientCloses[c],
                                HubMessage(MessageTypeHeartbeat))]
       IN  /\ clientSend' = [c \in HubClientIDs |->
                                IF c \in hubClients \ full THEN sent[c].send
                                ELSE clientSend[c]]
           /\ clientCloses' = [c \in HubClientIDs |->
                                  IF c \in full THEN clientCloses[c] + 1
                                  ELSE clientCloses[c]]
           /\ hubClients' = hubClients \ full
           /\ hubPanic' = FirstPanic({sent[c].panic : c \in hubClients \ full})
    /\ UNCHANGED <<hubRun, connClosed, readPumpPc, writePumpPc, streamPc>>
    /\ UNCHANGED outsideHub

\* Hub.Run, case <-ctx.Done(): h.shutdown() and return
HubShutdown ==
    /\ hubPanic = NoPanic
    /\ hubRun = "run"
    /\ hubRun' = "stopped"
    /\ clientCloses' = [c \in HubClientIDs |->
                           IF c \in hubClients THEN clientCloses[c] + 1
                           ELSE clientCloses[c]]
    /\ hubPanic' = FirstPanic({ChanClose(clientCloses[c]) : c \in hubClients})
    /\ connClosed' = [c \in HubClientIDs |-> connClosed[c] \/ c \in hubClients]
    /\ hubClients' = {}
    /\ UNCHANGED <<clientSend, readPumpPc, writePumpPc, streamPc>>
    /\ UNCHANGED outsideHub

\* writePump: it takes what is queued and writes it to the connection; on
\* a closed, drained channel or a failed write it closes the connection
\* and returns
WritePumpStep(c) ==
    /\ hubPanic = NoPanic
    /\ writePumpPc[c] = "run"
    /\ clientSend[c] # <<>> \/ clientCloses[c] > 0 \/ connClosed[c]
    /\ IF clientSend[c] # <<>> /\ ~connClosed[c]
       THEN /\ clientSend' = [clientSend EXCEPT ![c] = <<>>]
            /\ UNCHANGED <<writePumpPc, connClosed>>
       ELSE /\ writePumpPc' = [writePumpPc EXCEPT ![c] = "done"]
            /\ connClosed' = [connClosed EXCEPT ![c] = TRUE]
            /\ clientSend' = [clientSend EXCEPT ![c] =
                                 IF clientSend[c] = <<>> THEN <<>> ELSE Tail(@)]
    /\ UNCHANGED <<hubClients, hubRun, clientCloses, readPumpPc, streamPc, hubPanic>>
    /\ UNCHANGED outsideHub

HubNext ==
    \/ \E c \in HubClientIDs : HandleWebSocket(c)
    \/ \E c \in HubClientIDs : ReadPumpHeartbeat(c)
    \/ \E c \in HubClientIDs : ReadPumpStreamRequest(c)
    \/ \E c \in HubClientIDs : StreamSendChunk(c)
    \/ \E c \in HubClientIDs : StreamSendEnd(c)
    \/ \E c \in HubClientIDs : ReadPumpFails(c)
    \/ \E c \in HubClientIDs : HubUnregister(c)
    \/ HubHeartbeat
    \/ HubShutdown
    \/ \E c \in HubClientIDs : WritePumpStep(c)

-----------------------------------------------------------------------------
(* makeRequest of the Kiro and Qwen providers (internal/providers)         *)

RetryProviders == {"kiro", "qwen"}

MaxAttempts == 3

\* http.StatusUnauthorized
StatusUnauthorized == 401

\* the status codes the upstream answers with
UpstreamStatuses == {200, 400, StatusUnauthorized, 500}

NoResult == [status |-> 0, err |-> ""]

\* return resp, nil
Response(status) == [status |-> status, err |-> ""]

\* return nil, err of httpClient.Do
TransportError == [status |-> 0, err |-> "transport"]

\* return nil, fmt.Errorf("API error %d: %s", ...)
APIError(status) == [status |-> status, err |-> "API error"]

\* a history counter that stops counting at MaxAttempts
CountUp(n) == IF n < MaxAttempts THEN n + 1 ELSE n

RetryIdle ==
    /\ mrProvider = "kiro"
    /\ mrTokenManager = FALSE
    /\ mrPc = "idle"
    /\ mrAttempts = 0
    /\ mrToken = 0
    /\ mrCtxDone = FALSE
    /\ mrResult = NoResult

\* NewClient of either provider, with or without OAuth credentials
RetryInit ==
    /\ mrProvider \in RetryProviders
    /\ mrTokenManager \in BOOLEAN
    /\ mrPc = "idle"
    /\ mrAttempts = 0
    /\ mrToken = 0
    /\ mrCtxDone = FALSE
    /\ mrResult = NoResult

\* makeRequest is called: the body is marshalled and the request is built
MakeRequest ==
    /\ mrPc = "idle"
    /\ mrPc' = "do"
    /\ UNCHANGED <<mrProvider, mrTokenManager, mrAttempts, mrToken, mrCtxDone, mrResult>>
    /\ UNCHANGED outsideRetry

\* what makeRequest does with the answer of c.httpClient.Do(req): the next
\* position and the result, if it returns
AfterDo(status, tokenManager) ==
    IF status >= 400
    THEN IF status = StatusUnauthorized /\ tokenManager
         THEN [pc |-> "refresh", result |-> NoResult]
         ELSE [pc |-> "returned", result |-> APIError(status)]
    ELSE [pc |-> "returned", result |-> Response(status)]

\* c.httpClient.Do(req) returns a response
HttpDoResponds ==
    /\ mrPc = "do"
    /\ ~mrCtxDone
    /\ \E status \in UpstreamStatuses :
          LET r == AfterDo(status, mrTokenManager)
          IN  /\ mrPc' = r.pc
              /\ mrResult' = r.result
    /\ mrAttempts' = CountUp(mrAttempts)
    /\ UNCHANGED <<mrProvider, mrTokenManager, mrToken, mrCtxDone>>
    /\ UNCHANGED outsideRetry

\* c.httpClient.Do(req) returns an error: the network fails, or the context
\* is cancelled
HttpDoFails ==
    /\ mrPc = "do"
    /\ mrPc' = "returned"
    /\ mrResult' = TransportError
    /\ mrAttempts' = CountUp(mrAttempts)
    /\ UNCHANGED <<mrProvider, mrTokenManager, mrToken, mrCtxDone>>
    /\ UNCHANGED outsideRetry

\* c.RefreshToken(ctx) succeeds: the HTTP client is rebuilt with the new
\* token and makeRequest calls itself with the same arguments
ClientRefreshTokenOk ==
    /\ mrPc = "refresh"
    /\ mrToken' = CountUp(mrToken)
    /\ mrPc' = "do"
    /\ UNCHANGED <<mrProvider, mrTokenManager, mrAttempts, mrCtxDone, mrResult>>
    /\ UNCHANGED outsideRetry

\* c.RefreshToken(ctx) fails: the 401 is returned as an API error
ClientRefreshTokenFails ==
    /\ mrPc = "refresh"
    /\ mrPc' = "returned"
    /\ mrResult' = APIError(StatusUnauthorized)
    /\ UNCHANGED <<mrProvider, mrTokenManager, mrAttempts, mrToken, mrCtxDone>>
    /\ UNCHANGED outsideRetry

\* the caller cancels the context
CtxCancel ==
    /\ mrPc \in {"do", "refresh"}
    /\ ~mrCtxDone
    /\ mrCtxDone' = TRUE
    /\ UNCHANGED <<mrProvider, mrTokenManager, mrPc, mrAttempts, mrToken, mrResult>>
    /\ UNCHANGED outsideRetry

RetryNext ==
    \/ MakeRequest
    \/ HttpDoResponds
    \/ HttpDoFails
    \/ ClientRefreshTokenOk
    \/ ClientRefreshTokenFails
    \/ CtxCancel

-----------------------------------------------------------------------------
(* The cluster of proxy nodes (internal/loadbalancer)                      *)

\* the node ids: numbers that stand for strings in their order
ClusterNodeIDs == 1..3

\* the empty leaderID
NoLeader == 0

ClusterIdle ==
    /\ clStarted = {}
    /\ clNodes = [n \in ClusterNodeIDs |-> {}]
    /\ clIsLeader = [n \in ClusterNodeIDs |-> FALSE]
    /\ clLeaderID = [n \in ClusterNodeIDs |-> NoLeader]
    /\ clReply = [n \in ClusterNodeIDs |-> <<>>]
    /\ clChecked = {}
    /\ clFailed = FALSE

\* NewCluster on every node; one node, the seed of the others, has called
\* Join with no seed to connect to
ClusterInit ==
    /\ \E seed \in ClusterNodeIDs : clStarted = {seed}
    /\ clNodes = [n \in ClusterNodeIDs |-> {}]
    /\ clIsLeader = [n \in ClusterNodeIDs |-> FALSE]
    /\ clLeaderID = [n \in ClusterNodeIDs |-> NoLeader]
    /\ clReply = [n \in ClusterNodeIDs |-> <<>>]
    /\ clChecked = {}
    /\ clFailed = FALSE

\* the election of checkLeader: the lowest of the node's own id and the ids
\* in its c.nodes
LowestID(nodeID, nodes) ==
    CHOOSE id \in nodes \cup {nodeID} : \A other \in nodes \cup {nodeID} : id <= other

\* Join(seedNodes) of node n, connectToNode(seed): the join request reaches
\* the seed, whose handleJoin records the node and answers with its nodes
\* and its leaderID
HandleJoin(n, seed) ==
    /\ n \notin clStarted
    /\ clReply[n] = <<>>
    /\ seed \in clStarted
    /\ clNodes' = [clNodes EXCEPT ![seed] = @ \cup {n}]
    /\ clReply' = [clReply EXCEPT ![n] =
                      <<[nodes |-> clNodes[seed] \cup {n}, leaderID |-> clLeaderID[seed]]>>]
    /\ clChecked' = {}
    /\ UNCHANGED <<clStarted, clIsLeader, clLeaderID, clFailed>>
    /\ UNCHANGED outsideCluster

\* connectToNode of node n: the answer arrives, the nodes and the leaderID
\* are taken over; Join starts the loops and returns
ConnectToNode(n) ==
    /\ clReply[n] # <<>>
    /\ clNodes' = [clNodes EXCEPT ![n] = @ \cup clReply[n][1].nodes]
    /\ clLeaderID' = [clLeaderID EXCEPT ![n] = clReply[n][1].leaderID]
    /\ clReply' = [clReply EXCEPT ![n] = <<>>]
    /\ clStarted' = clStarted \cup {n}
    /\ clChecked' = {}
    /\ UNCHANGED <<clIsLeader, clFailed>>
    /\ UNCHANGED outsideCluster

\* checkLeader of node n; `alive` is whether the leader's LastSeen is less
\* than thirty seconds old on the node's clock
CheckLeader(n) ==
    /\ n \in clStarted
    /\ clChecked' = clChecked \cup {n}
    /\ \E alive \in BOOLEAN :
          IF clLeaderID[n] # NoLeader /\ clLeaderID[n] \in clNodes[n] /\ alive
          THEN UNCHANGED <<clLeaderID, clIsLeader>>
          ELSE LET lowestID == LowestID(n, clNodes[n])
               IN  /\ clLeaderID' = [clLeaderID EXCEPT ![n] = lowestID]
                   /\ clIsLeader' = [clIsLeader EXCEPT ![n] = (lowestID = n)]
    /\ UNCHANGED <<clStarted, clNodes, clReply, clFailed>>
    /\ UNCHANGED outsideCluster

\* sendHeartbeat of node n to node m fails: markNodeFailed(m)
MarkNodeFailed(n, m) ==
    /\ n \in clStarted
    /\ m \in clNodes[n] \ {n}
    /\ clNodes' = [clNodes EXCEPT ![n] = @ \ {m}]
    /\ clLeaderID' = [clLeaderID EXCEPT ![n] = IF m = @ THEN NoLeader ELSE @]
    /\ clFailed' = TRUE
    /\ clChecked' = {}
    /\ UNCHANGED <<clStarted, clIsLeader, clReply>>
    /\ UNCHANGED outsideCluster

ClusterNext ==
    \/ \E n, seed \in ClusterNodeIDs : HandleJoin(n, seed)
    \/ \E n \in ClusterNodeIDs : ConnectToNode(n)
    \/ \E n \in ClusterNodeIDs : CheckLeader(n)
    \/ \E n, m \in ClusterNodeIDs : MarkNodeFailed(n, m)

-----------------------------------------------------------------------------
(* Specifications                                                          *)

\* the converter is exercised; no streaming exchange is in progress
InitConv == ConvInit /\ StreamIdle /\ TokenIdle /\ CacheIdle /\ ServerIdle /\ PoolIdle /\ WsIdle /\ LbIdle /\ HubIdle /\ RetryIdle /\ ClusterIdle

SpecConv == InitConv /\ [][ConvNext]_vars

\* one streaming exchange is served; the converter state machine is idle
InitStream == StreamInit /\ ConvIdle /\ TokenIdle /\ CacheIdle /\ ServerIdle /\ PoolIdle /\ WsIdle /\ LbIdle /\ HubIdle /\ RetryIdle /\ ClusterIdle

SpecStream == InitStream /\ [][StreamNext]_vars

\* The select of the handler's step takes a case that is ready: once the
\* context is done the ctx.Done() case stays ready until it is taken.  Nothing
\* is assumed of the goroutine, whose Read may block on the upstream for ever.
SpecStreamFair == SpecStream /\ WF_vars(HandlerSeesCancel)

\* Every step that can be taken is taken in the end: the upstream answers
\* every Read, the goroutine and the handler run, a ready select case is
\* taken.  Only the client is free to stay or to go.
SpecStreamLive ==
    /\ SpecStream
    /\ WF_vars(OpenStream \/ OpenStreamFails)
    /\ WF_vars(GoReadBuffered \/ GoReadLine \/ GoReadEOF \/ GoReadError)
    /\ WF_vars(Deliver)
    /\ WF_vars(GoExit)
    /\ WF_vars(HandlerSeesClosed)
    /\ WF_vars(HandlerSeesCancel)

\* goroutines call GetToken while time passes; nothing else runs
InitToken == TokenInit /\ ConvIdle /\ StreamIdle /\ CacheIdle /\ ServerIdle /\ PoolIdle /\ WsIdle /\ LbIdle /\ HubIdle /\ RetryIdle /\ ClusterIdle

SpecToken == InitToken /\ [][TokenNext]_vars

\* the cache manager is used directly, as its tests use it
InitCache == CacheInit /\ ConvIdle /\ StreamIdle /\ TokenIdle /\ ServerIdle /\ PoolIdle /\ WsIdle /\ LbIdle /\ HubIdle /\ RetryIdle /\ ClusterIdle

SpecCache == InitCache /\ [][CacheNext]_vars

\* the enhanced server answers chat-completion and cache requests
InitCachedServer == CachedServerInit /\ ConvIdle /\ StreamIdle /\ TokenIdle /\ PoolIdle /\ WsIdle /\ LbIdle /\ HubIdle /\ RetryIdle /\ ClusterIdle

SpecCachedServer == InitCachedServer /\ [][CachedServerNext]_vars

\* goroutines select providers of the pool while providers are marked
InitPool == PoolInit /\ ConvIdle /\ StreamIdle /\ TokenIdle /\ CacheIdle /\ ServerIdle /\ WsIdle /\ LbIdle /\ HubIdle /\ RetryIdle /\ ClusterIdle

SpecPool == InitPool /\ [][PoolNext]_vars

\* one streaming request of a connected WebSocket client is served
InitWs == WsInit /\ ConvIdle /\ StreamIdle /\ TokenIdle /\ CacheIdle /\ ServerIdle /\ PoolIdle /\ LbIdle /\ HubIdle /\ RetryIdle /\ ClusterIdle

SpecWs == InitWs /\ [][WsNext]_vars

\* The handler returns, the goroutine runs and writePump takes what is queued:
\* none of them waits for ever.
SpecWsFair ==
    /\ SpecWs
    /\ WF_vars(WsHandlerReturns)
    /\ WF_vars(WsRead)
    /\ WF_vars(WsSend)
    /\ WF_vars(WritePump)

\* instances are added, removed, selected and checked
InitLb == LbInit /\ ConvIdle /\ StreamIdle /\ TokenIdle /\ CacheIdle /\ ServerIdle /\ PoolIdle /\ WsIdle /\ HubIdle /\ RetryIdle /\ ClusterIdle

SpecLb == InitLb /\ [][LbNext]_vars

\* clients connect, send heartbeats and streaming requests and go away while
\* the hub runs, broadcasts its heartbeat and is shut down
InitHub == HubInit /\ ConvIdle /\ StreamIdle /\ TokenIdle /\ CacheIdle /\ ServerIdle /\ PoolIdle /\ WsIdle /\ LbIdle /\ RetryIdle /\ ClusterIdle

SpecHub == InitHub /\ [][HubNext]_vars

\* makeRequest is called once; the upstream and the token endpoint answer as
\* they like
InitRetry == RetryInit /\ ConvIdle /\ StreamIdle /\ TokenIdle /\ CacheIdle /\ ServerIdle /\ PoolIdle /\ WsIdle /\ LbIdle /\ HubIdle /\ ClusterIdle

SpecRetry == InitRetry /\ [][RetryNext]_vars

\* every call that is pending returns: the HTTP client and the token manager
\* answer in the end, with whatever answer
SpecRetryFair ==
    /\ SpecRetry
    /\ WF_vars(MakeRequest)
    /\ WF_vars(HttpDoResponds \/ HttpDoFails)
    /\ WF_vars(ClientRefreshTokenOk \/ ClientRefreshTokenFails)

\* the nodes join through nodes that run already and every node checks its
\* leader again and again
InitCluster == ClusterInit /\ ConvIdle /\ StreamIdle /\ TokenIdle /\ CacheIdle /\ ServerIdle /\ PoolIdle /\ WsIdle /\ LbIdle /\ HubIdle /\ RetryIdle

SpecCluster == InitCluster /\ [][ClusterNext]_vars

-----------------------------------------------------------------------------
(* Properties of the converter                                             *)

\* the parameter names a tool schema declares
ParamNames(schema) == IF schema.nil THEN {} ELSE DOMAIN schema.kv.properties

\* the canonical stop reason a dialect's native finish reason stands for
CanonicalStop(reason) ==
    CASE reason \in {"stop", "end_turn", "STOP"}            -> "end_turn"
      [] reason \in {"length", "max_tokens", "MAX_TOKENS"}  -> "max_tokens"
      [] reason \in {"tool_calls", "tool_use"}              -> "tool_use"
      [] reason = "stop_sequence"                           -> "stop_sequence"
      [] OTHER                                              -> "none"

\* the finish reason a response of the given dialect carries
FinishReasonOf(resp, proto) ==
    CASE proto = ProtocolOpenAI -> resp.choices[1].finish_reason
      [] proto = ProtocolClaude -> resp.stop_reason
      [] proto = ProtocolGemini -> resp.candidates[1].finishReason

\* the max-output-tokens value a request of the given dialect carries; 0 is absent
MaxTokensOf(req, proto) ==
    CASE proto = ProtocolOpenAI -> req.max_tokens
      [] proto = ProtocolClaude -> req.max_tokens
      [] proto = ProtocolGemini ->
            IF req.generationConfig = <<>> THEN 0
            ELSE req.generationConfig[1].maxOutputTokens

\* one call has been made, between two different dialects
Converted(kind) == op = kind /\ Len(path) = 2 /\ path[1] # path[2]

\* C1: a Convert call whose source and destination dialect are the same
\* returns its argument unchanged, with a nil error (requests and responses).
IdentityLaw ==
    [][(Len(path') = Len(path) + 1 /\ Last(path') = Last(path))
         => (cur'.val = cur.val /\ cur'.err = NoErr)]_vars

IdentityWitness ==
    /\ Len(path) = 2
    /\ path[1] = path[2]
    /\ cur = Ok(orig)

\* C2: a request conversion between two different dialects either fails with
\* the unsupported-conversion error naming both dialects and returns nothing,
\* or succeeds with a populated request: never success with the empty request.
RequestConvertedOrUnsupported ==
    Converted("request") =>
        \/ /\ cur.err = UnsupportedErr("conversion", path[1], path[2])
           /\ cur.val = NoVal
        \/ /\ cur.err = NoErr
           /\ cur.val \notin {ClaudeRequestZero, GeminiRequestZero}

\* C3: a converted response that carries usage has
\* total_tokens = prompt_tokens + completion_tokens.
UsageTotalRecomputed ==
    (Converted("response") /\ cur.err = NoErr /\ path[2] = ProtocolOpenAI
        /\ cur.val.usage # <<>>)
    => cur.val.usage[1].total_tokens
         = cur.val.usage[1].prompt_tokens + cur.val.usage[1].completion_tokens

\* C4: an OpenAI request whose system messages are "A" then "B", converted to
\* Claude or Gemini, has the single system value "A\nB" and no system-role
\* message in the converted list.
SystemFolding ==
    (Converted("request") /\ path[1] = ProtocolOpenAI
        /\ SystemTexts(orig.messages) = <<"A", "B">>)
    => /\ cur.err = NoErr
       /\ path[2] = ProtocolClaude =>
             /\ cur.val.system = "A\nB"
             /\ \A i \in 1..Len(cur.val.messages) : cur.val.messages[i].role # RoleSystem
       /\ path[2] = ProtocolGemini =>
             /\ cur.val.systemInstruction = <<[parts |-> <<GeminiText("A\nB")>>]>>
             /\ \A i \in 1..Len(cur.val.contents) : cur.val.contents[i].role # RoleSystem

\* C5: a request without a max-output-tokens value is converted with max
\* tokens 8192 toward OpenAI or Claude and 65536 toward Gemini.
DefaultMaxTokensSubstituted ==
    (Converted("request") /\ MaxTokensOf(orig, path[1]) = 0)
    => /\ cur.err = NoErr
       /\ MaxTokensOf(cur.val, path[2]) =
             (IF path[2] = ProtocolGemini THEN DefaultGeminiMaxTokens ELSE DefaultMaxTokens)

\* C7: a converted response's finish reason has the same canonical meaning as
\* the source's (stop/end_turn/STOP, length/max_tokens/MAX_TOKENS,
\* tool_calls/tool_use).
FinishReasonByMeaning ==
    (/\ Converted("response")
     /\ cur.err = NoErr
     /\ CanonicalStop(FinishReasonOf(orig, path[1])) \in {"end_turn", "max_tokens", "tool_use"})
    => CanonicalStop(FinishReasonOf(cur.val, path[2]))
         = CanonicalStop(FinishReasonOf(orig, path[1]))

\* C8: an OpenAI request with the one tool get_weather(location), converted
\* OpenAI -> Claude -> OpenAI, holds exactly one tool with that name and the
\* same parameter names.
ToolRoundTripCase ==
    /\ op = "request"
    /\ path = <<ProtocolOpenAI, ProtocolClaude, ProtocolOpenAI>>
    /\ Len(orig.tools) = 1
    /\ orig.tools[1].function.name = "get_weather"
    /\ ParamNames(orig.tools[1].function.parameters) = {"location"}

ToolRoundTrip ==
    ToolRoundTripCase =>
        /\ cur.err = NoErr
        /\ Len(cur.val.tools) = 1
        /\ cur.val.tools[1].function.name = "get_weather"
        /\ ParamNames(cur.val.tools[1].function.parameters) = {"location"}

ToolRoundTripWitness == ToolRoundTripCase /\ cur.err = NoErr /\ Len(cur.val.tools) = 1

-----------------------------------------------------------------------------
(* Properties of the streaming exchange                                    *)

\* the text a written data event carries: the delta content of a converted
\* chunk, or the raw chunk
PayloadOf(msg) ==
    IF msg.body.kind = "StreamChunk" THEN msg.body.choices[1].delta.content
    ELSE msg.body.s

RECURSIVE DataPayloads(_)
\* the payloads of the data events written, the [DONE] event and an error
\* reply left out
DataPayloads(w) ==
    IF w = <<>> THEN <<>>
    ELSE IF Head(w).sse = "data" /\ Head(w).body.kind \in {"StreamChunk", "string"}
         THEN <<PayloadOf(Head(w))>> \o DataPayloads(Tail(w))
         ELSE DataPayloads(Tail(w))

RECURSIVE ToolCallsWritten(_)
\* the tool calls the data events written carry
ToolCallsWritten(w) ==
    IF w = <<>> THEN <<>>
    ELSE IF Head(w).sse = "data" /\ Head(w).body.kind = "StreamChunk"
         THEN Head(w).body.choices[1].delta.tool_calls \o ToolCallsWritten(Tail(w))
         ELSE ToolCallsWritten(Tail(w))

\* the exchange ran to its end: the goroutine closed dataChan, the handler saw
\* it, and the client did not go away
FinishedNormally == hpc = "returned" /\ dataClosed /\ ~ctxDone

\* the text a well-formed text fragment of the dialect carries; EmptyText for
\* any other line
TextOfLine(proto, line) ==
    IF line.blank \/ line.form # "json" THEN EmptyText
    ELSE CASE proto = ProtocolClaude ->
                 IF /\ line.prefix
                    /\ line.obj.type = "content_block_delta"
                    /\ line.obj.delta.type = "text_delta"
                 THEN line.obj.delta.text ELSE EmptyText
           [] proto = ProtocolOpenAI ->
                 IF line.prefix THEN line.obj.choices[1].delta[1].content ELSE EmptyText
           [] proto = ProtocolGemini ->
                 IF line.prefix THEN EmptyText
                 ELSE LET ps == SelectSeq(line.obj.candidates[1].content.parts,
                                          LAMBDA p : p.text # EmptyText)
                      IN  IF ps = <<>> THEN EmptyText ELSE ps[1].text

\* the line that ends the message in the dialect
IsStopLine(proto, line) ==
    /\ ~line.blank
    /\ line.prefix
    /\ \/ proto = ProtocolOpenAI /\ line.form = "done"
       \/ proto = ProtocolClaude /\ line.form = "json" /\ line.obj.type = "message_stop"

\* a line that is neither blank nor decodable
IsMalformed(line) == ~line.blank /\ line.form = "bad"

RECURSIVE PiecesOf(_, _, _)
\* a text cut into pieces of at most BufferSize bytes
PiecesOf(name, off, rem) ==
    IF rem = 0 THEN <<>>
    ELSE <<[name |-> name, off |-> off, n |-> Min(rem, BufferSize)]>>
         \o PiecesOf(name, off + Min(rem, BufferSize), rem - Min(rem, BufferSize))

RECURSIVE TextPieces(_, _)
\* the pieces of every well-formed text fragment before the stop line
TextPieces(proto, lines) ==
    IF lines = <<>> \/ IsStopLine(proto, Head(lines)) THEN <<>>
    ELSE PiecesOf(TextOfLine(proto, Head(lines)).name, 0, TextOfLine(proto, Head(lines)).bytes)
         \o TextPieces(proto, Tail(lines))

\* C6: once a stream that carried a tool call in three argument fragments and
\* then its completion signal has been served, exactly one tool call has been
\* emitted and its arguments are the fragments put together.
ToolCallAssembled ==
    (FinishedNormally /\ upstream0 = ToolCallExample)
    => /\ Len(ToolCallsWritten(written)) = 1
       /\ ToolCallsWritten(written)[1].function.arguments = "{\"location\":\"Tokyo\"}"

\* C9: the data events written to the client are, in order and one for one,
\* the fragments stream.Read returned; at most the newest fragment is not yet
\* written.
OrderPreserved ==
    LET d == DataPayloads(written)
    IN  /\ Len(d) <= Len(readLog)
        /\ Len(readLog) <= Len(d) + 1
        /\ \A i \in 1..Len(d) : d[i] = readLog[i]

OrderPreservedWitness ==
    /\ Len(DataPayloads(written)) >= 2
    /\ DataPayloads(written)[1] # DataPayloads(written)[2]
    /\ DataPayloads(written) = readLog

\* some malformed line comes before a well-formed text fragment, both ahead of
\* the stop line
MalformedBeforeText(proto, lines) ==
    \E i, j \in 1..Len(lines) :
        /\ i < j
        /\ IsMalformed(lines[i])
        /\ TextOfLine(proto, lines[j]) # EmptyText
        /\ \A k \in 1..j : ~IsStopLine(proto, lines[k])

\* C10: an exchange that ran to its end has delivered every well-formed text
\* fragment of the upstream body up to the stop line, whatever malformed
\* lines came in between.
MalformedSkipped ==
    FinishedNormally => DataPayloads(written) = TextPieces(toProtocol, upstream0)

MalformedSkippedWitness ==
    /\ FinishedNormally
    /\ MalformedBeforeText(toProtocol, upstream0)
    /\ DataPayloads(written) # <<>>

CancelClosesUpstream ==
    /\ [][hpc = "returned" => written' = written]_vars
    /\ []((hpc = "returned" /\ written # <<ErrorReply>>) => streamClosed)
    /\ ((ctxDone /\ hpc = "stream") ~> (hpc = "returned" /\ streamClosed))

\* the handler has returned on cancellation while the goroutine is still in
\* stream.Read with lines of the body outstanding
CancelClosesUpstreamWitness ==
    /\ ctxDone
    /\ hpc = "returned"
    /\ streamClosed
    /\ gpc = "read"
    /\ upstream # <<>>
    /\ written # <<>>

-----------------------------------------------------------------------------
(* Further properties of the converter                                     *)

\* C13: a text fragment converted from Gemini or Claude to OpenAI is a
\* chat.completion.chunk of the requested model with exactly one choice whose
\* delta content is the fragment itself.
StreamChunkWraps ==
    (/\ Converted("chunk")
     /\ path[1] \in {ProtocolGemini, ProtocolClaude}
     /\ path[2] = ProtocolOpenAI
     /\ orig.kind = "string")
    => /\ cur.err = NoErr
       /\ cur.val.kind = "StreamChunk"
       /\ cur.val.object = "chat.completion.chunk"
       /\ cur.val.model \in ModelNames
       /\ Len(cur.val.choices) = 1
       /\ cur.val.choices[1].delta.content = orig.s

StreamChunkWrapsWitness ==
    /\ Converted("chunk")
    /\ path = <<ProtocolClaude, ProtocolOpenAI>>
    /\ orig = GoString(" wor\n")
    /\ cur.err = NoErr
    /\ cur.val.choices[1].delta.content = " wor\n"

RECURSIVE CallsOfOpenAI(_)
\* the tool calls of the assistant messages: id, name, decoded arguments
CallsOfOpenAI(msgs) ==
    IF msgs = <<>> THEN <<>>
    ELSE (IF Head(msgs).role = RoleAssistant
          THEN [i \in 1..Len(Head(msgs).tool_calls) |->
                  [id   |-> Head(msgs).tool_calls[i].id,
                   name |-> Head(msgs).tool_calls[i].function.name,
                   args |-> JSONUnmarshalMap(Head(msgs).tool_calls[i].function.arguments)]]
          ELSE <<>>)
         \o CallsOfOpenAI(Tail(msgs))

RECURSIVE ResultsOfOpenAI(_)
\* the tool results: one per tool message, invocation id and text
ResultsOfOpenAI(msgs) ==
    IF msgs = <<>> THEN <<>>
    ELSE (IF Head(msgs).role = RoleTool
          THEN <<[id |-> Head(msgs).tool_call_id, text |-> GetContentAsString(Head(msgs))]>>
          ELSE <<>>)
         \o ResultsOfOpenAI(Tail(msgs))

\* the text a tool_result block carries: a string, or the texts of its blocks
ResultText(content) ==
    CASE content.t = "string" -> content.s
      [] content.t = "nil"    -> ""
      [] OTHER                -> ConcatTexts(content.parts)

RECURSIVE BlocksOfClaude(_, _, _)
\* the blocks of the given type in the messages of the given role, in order
BlocksOfClaude(msgs, role, type) ==
    IF msgs = <<>> THEN <<>>
    ELSE (IF Head(msgs).role = role
          THEN SelectSeq(Head(msgs).content, LAMBDA b : b.type = type)
          ELSE <<>>)
         \o BlocksOfClaude(Tail(msgs), role, type)

CallsOfClaude(msgs) ==
    LET bs == BlocksOfClaude(msgs, RoleAssistant, "tool_use")
    IN  [i \in 1..Len(bs) |-> [id |-> bs[i].id, name |-> bs[i].name, args |-> bs[i].input]]

ResultsOfClaude(msgs) ==
    LET bs == BlocksOfClaude(msgs, RoleUser, "tool_result")
    IN  [i \in 1..Len(bs) |-> [id |-> bs[i].tool_use_id, text |-> ResultText(bs[i].content)]]

CallsOf(req, proto) ==
    IF proto = ProtocolOpenAI THEN CallsOfOpenAI(req.messages) ELSE CallsOfClaude(req.messages)

ResultsOf(req, proto) ==
    IF proto = ProtocolOpenAI THEN ResultsOfOpenAI(req.messages)
    ELSE ResultsOfClaude(req.messages)

\* a one-hop request conversion between OpenAI and Claude
OpenAIClaudeHop ==
    /\ Converted("request")
    /\ {path[1], path[2]} = {ProtocolOpenAI, ProtocolClaude}

\* C14: between OpenAI and Claude the converted request holds the same tool
\* calls (id, name, arguments) and the same tool results (invocation id,
\* content) as the source, one for one and in order.
ToolTrafficCarried ==
    OpenAIClaudeHop
    => /\ cur.err = NoErr
       /\ CallsOf(cur.val, path[2]) = CallsOf(orig, path[1])
       /\ ResultsOf(cur.val, path[2]) = ResultsOf(orig, path[1])

\* a data reference that has a header and a payload
Splittable(url) == \E i \in 1..Len(url) : url[i] = ","

\* an image part whose data reference cannot be split
BadImagePart(part) ==
    /\ part.type = "image_url"
    /\ part.image_url # <<>>
    /\ HasPrefixData(part.image_url[1])
    /\ ~Splittable(part.image_url[1])

\* an image part that names its image by address
ReferencePart(part) ==
    /\ part.type = "image_url"
    /\ part.image_url # <<>>
    /\ ~HasPrefixData(part.image_url[1])

RECURSIVE PartMarks(_, _)
\* what is to be found of a part list in the message converted toward the
\* dialect: each text and the payload of each embedded image, the
\* unsplittable images left out; of an image named by address its address,
\* in the dialect that can hold one
PartMarks(parts, to) ==
    IF parts = <<>> THEN <<>>
    ELSE (CASE Head(parts).type = "text" -> <<[k |-> "text", v |-> Head(parts).text]>>
            [] BadImagePart(Head(parts)) -> <<>>
            [] ReferencePart(Head(parts)) ->
                 IF to = ProtocolGemini
                 THEN <<[k |-> "file", v |-> Head(parts).image_url[1]]>>
                 ELSE <<>>
            [] OTHER ->
                 <<[k |-> "image",
                    v |-> SubSeq(Head(parts).image_url[1],
                                 IndexOf(Head(parts).image_url[1], ",", 1) + 1,
                                 Len(Head(parts).image_url[1]))]>>)
         \o PartMarks(Tail(parts), to)

\* the same of the blocks of a Claude message
ClaudeMarks(blocks) ==
    [i \in 1..Len(blocks) |->
        IF blocks[i].type = "text" THEN [k |-> "text", v |-> blocks[i].text]
        ELSE [k |-> "image", v |-> blocks[i].source[1].data]]

\* the same of the parts of a Gemini content
GeminiMarks(parts) ==
    [i \in 1..Len(parts) |->
        IF parts[i].inlineData # <<>> THEN [k |-> "image", v |-> parts[i].inlineData[1].data]
        ELSE IF parts[i].fileData # <<>> THEN [k |-> "file", v |-> parts[i].fileData[1].fileUri]
        ELSE [k |-> "text", v |-> parts[i].text]]

\* the messages whose parts the conversion toward the dialect carries over
PartMessages(msgs, to) ==
    SelectSeq(msgs, LAMBDA m :
        /\ m.role # RoleSystem
        /\ to = ProtocolClaude => (m.role # RoleTool /\ m.tool_calls = <<>>)
        /\ PartMarks(GetContentAsParts(m), to) # <<>>)

ExpectedMarks(req, to) ==
    LET ms == PartMessages(req.messages, to)
    IN  [i \in 1..Len(ms) |-> PartMarks(GetContentAsParts(ms[i]), to)]

ActualMarks(req, to) ==
    IF to = ProtocolGemini
    THEN [i \in 1..Len(req.contents) |-> GeminiMarks(req.contents[i].parts)]
    ELSE LET ms == SelectSeq(req.messages, LAMBDA m :
                       \A j \in 1..Len(m.content) : m.content[j].type \in {"text", "image"})
         IN  [i \in 1..Len(ms) |-> ClaudeMarks(ms[i].content)]

HasBadImage(req) ==
    \E i \in 1..Len(req.messages) :
        \E j \in 1..Len(GetContentAsParts(req.messages[i])) :
            BadImagePart(GetContentAsParts(req.messages[i])[j])

BadImageCase ==
    /\ Converted("request")
    /\ path[1] = ProtocolOpenAI
    /\ HasBadImage(orig)

\* C15: an OpenAI request holding an image part whose data reference cannot
\* be split converts without error, and each converted message holds the
\* other parts of its source message, in their order.
BadImageDropped ==
    BadImageCase
    => /\ cur.err = NoErr
       /\ ActualMarks(cur.val, path[2]) = ExpectedMarks(orig, path[2])

BadImageDroppedWitness ==
    /\ BadImageCase
    /\ path[2] = ProtocolClaude
    /\ cur.err = NoErr
    /\ \E i \in DOMAIN ActualMarks(cur.val, path[2]) :
          ActualMarks(cur.val, path[2])[i] = <<[k |-> "text", v |-> "a"], [k |-> "text", v |-> "b"]>>

RolesOf(messages) ==
    LET rest == SelectSeq(messages, LAMBDA m : m.role # RoleSystem)
    IN  [i \in DOMAIN rest |-> rest[i].role]

\* a request has gone from OpenAI to Gemini and back
GeminiRoundTrip ==
    /\ op = "request"
    /\ path = <<ProtocolOpenAI, ProtocolGemini, ProtocolOpenAI>>

\* C17: an OpenAI request converted to Gemini and back to OpenAI holds one
\* message for every message of the source that is not a system message,
\* in order, each with the role it had in the source.
RolesRoundTrip ==
    GeminiRoundTrip
    => /\ cur.err = NoErr
       /\ RolesOf(cur.val.messages) = RolesOf(orig.messages)

\* a model list has been converted to the OpenAI dialect
ModelListCase == Converted("models") /\ path[2] = ProtocolOpenAI

\* C18: a model list converted to the OpenAI dialect has one entry for each
\* model of the source list, in order: the id without its "models/" prefix,
\* object "model", an owner set, and the creation time of the source entry.
ModelListCarried ==
    ModelListCase
    => /\ cur.err = NoErr
       /\ Len(cur.val.data) = Len(orig.data)
       /\ \A i \in DOMAIN orig.data :
            /\ cur.val.data[i].id = TrimModelsPrefix(orig.data[i].id)
            /\ cur.val.data[i].object = "model"
            /\ cur.val.data[i].owned_by # ""
            /\ cur.val.data[i].created = orig.data[i].created

\* the error is the one a Convert function returns when its switch has no
\* case for the pair of dialects
IsUnsupported(err) ==
    \E what \in {"conversion", "response conversion", "stream chunk conversion",
                 "model list conversion"} :
        \E from, to \in Protocols : err = UnsupportedErr(what, from, to)

\* C19: whatever the operation (request, response, stream chunk, model
\* list), a call between two different dialects finds a rule: it does not
\* return the unsupported-conversion error.
DispatchComplete ==
    (Len(path) = 2 /\ path[1] # path[2]) => ~IsUnsupported(cur.err)

\* an OpenAI request has been converted to Claude
OpenAIToClaudeCase ==
    /\ Converted("request")
    /\ path = <<ProtocolOpenAI, ProtocolClaude>>

\* the message has content: a string, a list with a part in it, or tool calls
HasContent(m) == GetContentAsParts(m) # <<>> \/ m.tool_calls # <<>>

\* the role a message has in Claude, which has no role for tool results:
\* they are handed over in a user message
RoleInClaude(m) == IF m.role = RoleTool THEN RoleUser ELSE m.role

\* the roles the Claude messages of an OpenAI message list are to have
ExpectedClaudeRoles(messages) ==
    LET rest == SelectSeq(messages, LAMBDA m : m.role # RoleSystem /\ HasContent(m))
    IN  [i \in DOMAIN rest |-> RoleInClaude(rest[i])]

\* C20: an OpenAI request converted to Claude has the text of its system
\* message in the system field, one message for each message of the source
\* that is not a system message and has content, in the order and with the
\* role of the source (a tool message as a user message), and the max_tokens
\* of the source when the source gives one.
OpenAIToClaudeBasics ==
    OpenAIToClaudeCase
    => /\ cur.err = NoErr
       /\ Len(SystemTexts(orig.messages)) = 1
            => cur.val.system = SystemTexts(orig.messages)[1]
       /\ [i \in DOMAIN cur.val.messages |-> cur.val.messages[i].role]
            = ExpectedClaudeRoles(orig.messages)
       /\ orig.max_tokens # 0 => cur.val.max_tokens = orig.max_tokens

\* the system text a request of the given dialect carries; "" is none
SystemOf(req, proto) ==
    IF proto = ProtocolClaude THEN req.system
    ELSE IF req.systemInstruction = <<>> THEN ""
    ELSE ConcatTexts([i \in DOMAIN req.systemInstruction[1].parts |->
                         [type |-> "text", text |-> req.systemInstruction[1].parts[i].text]])

\* the number of messages of a request of the given dialect
MessageCountOf(req, proto) ==
    IF proto = ProtocolClaude THEN Len(req.messages) ELSE Len(req.contents)

\* the temperature of a request of the given dialect; 0 is absent
TemperatureOf(req, proto) ==
    IF proto = ProtocolClaude THEN req.temperature
    ELSE IF req.generationConfig = <<>> THEN 0
    ELSE req.generationConfig[1].temperature

\* the names of the tools a request of the given dialect defines, in order
ToolNamesOf(req, proto) ==
    IF proto = ProtocolClaude THEN [i \in DOMAIN req.tools |-> req.tools[i].name]
    ELSE IF req.tools = <<>> THEN <<>>
    ELSE [i \in DOMAIN req.tools[1].functionDeclarations |->
             req.tools[1].functionDeclarations[i].name]

\* a request has been converted between Gemini and Claude
GeminiClaudeHop ==
    /\ Converted("request")
    /\ {path[1], path[2]} = {ProtocolGemini, ProtocolClaude}

\* C21: a request converted from Gemini to Claude or from Claude to Gemini
\* has the system text of the source, as many messages as the source, its
\* temperature and max-output-tokens where the source gives them, and the
\* tools of the source under their names.
GeminiClaudeCarried ==
    GeminiClaudeHop
    => /\ cur.err = NoErr
       /\ SystemOf(cur.val, path[2]) = SystemOf(orig, path[1])
       /\ MessageCountOf(cur.val, path[2]) = MessageCountOf(orig, path[1])
       /\ TemperatureOf(orig, path[1]) # 0
            => TemperatureOf(cur.val, path[2]) = TemperatureOf(orig, path[1])
       /\ MaxTokensOf(orig, path[1]) # 0
            => MaxTokensOf(cur.val, path[2]) = MaxTokensOf(orig, path[1])
       /\ ToolNamesOf(cur.val, path[2]) = ToolNamesOf(orig, path[1])

\* the assistant texts of a response of the given dialect
AssistantTextsOf(resp, proto) ==
    IF proto = ProtocolOpenAI
    THEN {GetContentAsString(resp.choices[i].message[1]) : i \in DOMAIN resp.choices}
    ELSE {resp.candidates[1].content.parts[i].text :
             i \in DOMAIN resp.candidates[1].content.parts}

\* the prompt and completion token counts of a response of the given dialect
TokensOf(resp, proto) ==
    CASE proto = ProtocolOpenAI ->
             <<resp.usage[1].prompt_tokens, resp.usage[1].completion_tokens>>
      [] proto = ProtocolGemini ->
             <<resp.usageMetadata[1].promptTokenCount,
               resp.usageMetadata[1].candidatesTokenCount>>
      [] proto = ProtocolClaude ->
             IF resp.usage = <<>> THEN <<0, 0>>
             ELSE <<resp.usage[1].input_tokens, resp.usage[1].output_tokens>>

\* the source response carries usage
HasUsage(resp, proto) ==
    IF proto = ProtocolOpenAI THEN resp.usage # <<>> ELSE resp.usageMetadata # <<>>

\* a response has been converted to Claude
ToClaudeResponseCase == Converted("response") /\ path[2] = ProtocolClaude

\* C22: a response converted from OpenAI or Gemini to Claude has content, in
\* it a text block for each assistant text of the source, and the input and
\* output token counts of the source's prompt and completion counts.
ClaudeResponseCarried ==
    ToClaudeResponseCase
    => /\ cur.err = NoErr
       /\ cur.val.content # <<>>
       /\ \A text \in AssistantTextsOf(orig, path[1]) :
            \E i \in DOMAIN cur.val.content :
                cur.val.content[i].type = "text" /\ cur.val.content[i].text = text
       /\ HasUsage(orig, path[1])
            => TokensOf(cur.val, ProtocolClaude) = TokensOf(orig, path[1])

-----------------------------------------------------------------------------
(* Properties of the token manager                                         *)

\* a call of GetToken that has its answer
GetTokenDone(g) == getCall[g].pc = "done"

\* the token the call read has an expiry, which lies more than the buffer
\* after the time of the call
ExpiresLater(call) ==
    /\ call.token # <<>>
    /\ call.token[1].expiry # NoExpiry
    /\ call.token[1].expiry - call.seen[1].now > call.seen[1].buffer

\* there was no token to read, or the one read has expired or expires in
\* less than the buffer after the time of the call
ExpiresSoon(call) ==
    \/ call.token = <<>>
    \/ /\ call.token[1].expiry # NoExpiry
       /\ call.token[1].expiry - call.seen[1].now < call.seen[1].buffer

\* C23: GetToken answers with the stored token, the token source not called,
\* when that token expires more than expiryBuffer from now; with no token
\* stored, or one that has expired or expires within expiryBuffer, it calls
\* the token source, and the token it gets is stored as the current token
\* and is the answer.
GetTokenRefreshesInTime ==
    /\ [](\A g \in TokenCallers :
            GetTokenDone(g) =>
               /\ ExpiresLater(getCall[g]) =>
                     (~getCall[g].fetched /\ getCall[g].result = Ok(getCall[g].token))
               /\ ExpiresSoon(getCall[g]) => getCall[g].fetched)
    /\ [][\A g \in TokenCallers :
            (getCall[g].pc = "refresh" /\ GetTokenDone(g)' /\ getCall'[g].result.err = NoErr)
               => /\ tokenCalls' = tokenCalls + 1
                  /\ getCall'[g].result.val # <<>>
                  /\ currentToken' = getCall'[g].result.val]_vars

\* a call found a token about to expire, fetched another one and answered
\* with it; another call was answered from the stored token
GetTokenRefreshesInTimeWitness ==
    \E g, h \in TokenCallers :
        /\ GetTokenDone(g)
        /\ getCall[g].token # <<>>
        /\ ExpiresSoon(getCall[g])
        /\ getCall[g].token[1].expiry >= getCall[g].seen[1].now
        /\ getCall[g].fetched
        /\ getCall[g].result = Ok(currentToken)
        /\ GetTokenDone(h)
        /\ ExpiresLater(getCall[h])
        /\ ~getCall[h].fetched

-----------------------------------------------------------------------------
(* Properties of the cache manager                                         *)

\* the step is a call of Get on the enabled cache
EnabledGetStep ==
    cacheStats'.hits + cacheStats'.misses = cacheStats.hits + cacheStats.misses + 1

\* the duration of the Set has elapsed
Elapsed(rec, timeNow) == rec.until > 0 /\ timeNow > rec.until

\* C24: on the enabled cache Get(k) finds the value of the latest Set(k, v)
\* while that entry is not deleted, cleared, expired or evicted, and finds
\* nothing after Delete(k), after Clear(), or once the duration of the entry
\* has elapsed.
GetFindsLatestSet ==
    [][EnabledGetStep
       => LET rec == latestSet[lastGet'.key]
          IN  /\ (rec # <<>> /\ rec[1].state = "live" /\ ~Elapsed(rec[1], cacheNow))
                    => (lastGet'.found /\ lastGet'.value = rec[1].value)
              /\ (rec # <<>> /\ rec[1].state = "deleted") => ~lastGet'.found
              /\ (rec # <<>> /\ rec[1].state \in {"live", "evicted"}
                    /\ Elapsed(rec[1], cacheNow)) => ~lastGet'.found]_vars

\* a Get has found the value of the last Set, after that Set had evicted the
\* entry of another key and a Get had found nothing
GetFindsLatestSetWitness ==
    /\ lastGet.found
    /\ lastGet.value = "bb"
    /\ cacheSets = MaxSets
    /\ latestSet[lastGet.key][1].state = "live"
    /\ \E k \in CacheKeys : latestSet[k] # <<>> /\ latestSet[k][1].state = "evicted"
    /\ cacheStats.misses > 0

-----------------------------------------------------------------------------
(* Properties of the cached chat-completion handlers                       *)

\* the step answers a chat-completion request
ChatStep == chatRequests' = chatRequests + 1

\* the request the step answers was answered with success before, within the
\* cache duration, and the cache has been enabled and not cleared since
AnsweredBefore ==
    LET req == lastReply'.request[1]
    IN  /\ ~req.stream
        /\ cacheEnabled
        /\ answeredAt[KeyOf(req)] # 0
        /\ cacheNow < answeredAt[KeyOf(req)] + CompletionCacheDuration

\* C25: with caching enabled, a non-streaming chat-completion request that
\* repeats one answered with success within the cache duration is answered
\* from the cache, and no provider is called.
RepeatedRequestFromCache ==
    [][(ChatStep /\ AnsweredBefore)
          => (lastReply'.via = "cache" /\ providerCalls' = providerCalls)]_vars

-----------------------------------------------------------------------------
(* Properties of the provider pool manager                                 *)

\* the step is the return of g's call of SelectProvider (a call that fails
\* as g's call before it failed leaves no trace and is judged with that one)
SelectReturns(g) == selCall'[g].pc = "done" /\ selCall'[g] # selCall[g]

\* C26: SelectProvider(type) never returns a provider whose IsHealthy is
\* false, and it returns an error when the type is unknown, when its pool is
\* empty and when none of its providers is healthy.
SelectsHealthyOrFails ==
    [][\A g \in PoolCallers :
          SelectReturns(g) =>
             LET call == selCall'[g]
                 type == call.type
             IN  /\ call.result.err = NoErr =>
                       \E i \in DOMAIN pools'[type] :
                          /\ pools'[type][i].uuid = call.result.val
                          /\ pools'[type][i].isHealthy
                 /\ type \notin DOMAIN pools => call.result.err # NoErr
                 /\ (type \in DOMAIN pools /\ pools[type] = <<>>) => call.result.err # NoErr
                 /\ (type \in DOMAIN pools
                        /\ \A i \in DOMAIN pools[type] : ~pools[type][i].isHealthy)
                       => call.result.err # NoErr]_vars

\* one call has returned the second provider of a pool whose first provider
\* is unhealthy, and another call has found no healthy provider since
SelectsHealthyOrFailsWitness ==
    \E g, h \in PoolCallers :
        /\ selCall[g].pc = "done"
        /\ selCall[g].result.err = NoErr
        /\ selCall[g].result.val = ProviderUUIDs[2]
        /\ selCall[g].index = 0
        /\ selCall[h].pc = "done"
        /\ selCall[h].result.err = NoHealthyErr

\* C27: with n healthy providers of a type and no change of health in
\* between, n consecutive calls of SelectProvider for the type return each of
\* the n providers exactly once.
RoundRobinOverHealthy ==
    LET n == Cardinality(HealthySet(pools))
        m == Len(streak)
    IN  (n > 0 /\ m >= n) =>
           /\ \A i \in (m - n + 1)..m : streak[i] \in HealthySet(pools)
           /\ \A i, j \in (m - n + 1)..m : i # j => streak[i] # streak[j]

\* three calls in a row have returned the three healthy providers, the first
\* of them not the first of the pool
RoundRobinOverHealthyWitness ==
    /\ Cardinality(HealthySet(pools)) = Len(ProviderUUIDs)
    /\ streak = <<ProviderUUIDs[2], ProviderUUIDs[3], ProviderUUIDs[1]>>

-----------------------------------------------------------------------------
(* Properties of the WebSocket streaming request                           *)

RECURSIVE ChunksIn(_)
\* the chunks the stream messages of a sequence of messages carry, in order
ChunksIn(messages) ==
    IF messages = <<>> THEN <<>>
    ELSE (IF messages[1].type = MessageTypeStream THEN <<messages[1].response>> ELSE <<>>)
            \o ChunksIn(Tail(messages))

\* the client has one stream message for every chunk read, in the order
\* read, and then one stream_end message
StreamDelivered ==
    /\ wsPc = "ended"
    /\ ChunksIn(wsReceived) = wsReadLog
    /\ wsReceived # <<>>
    /\ Last(wsReceived) = EndMessage
    /\ Cardinality({i \in DOMAIN wsReceived : wsReceived[i] = EndMessage}) = 1

\* C28: for a WebSocket streaming request the client receives one stream
\* message for every chunk read from the upstream, in the order read and
\* with none dropped, and after the last of them exactly one stream_end
\* message.
StreamDeliveredInOrder == (wsPc = "read") ~> []StreamDelivered

-----------------------------------------------------------------------------
(* Properties of the load balancer                                         *)

\* how often an instance occurs among the last n selections
TimesSelected(id, n) ==
    Cardinality({i \in (Len(lbStreak) - n + 1)..Len(lbStreak) : lbStreak[i] = id})

\* C29: with a fixed set of healthy instances, round_robin selects each of
\* the n instances exactly once in any n selections in a row, and weighted
\* selects each instance exactly Weight times in any W selections in a row,
\* W being the sum of the weights.
FairTurns ==
    LET healthy == getHealthyInstances(lbInstances)
        n == Len(healthy)
        W == TotalWeight(healthy)
    IN  /\ (lbAlgorithm = AlgorithmRoundRobin /\ n > 0 /\ Len(lbStreak) >= n)
              => \A i \in 1..n : TimesSelected(healthy[i].id, n) = 1
        /\ (lbAlgorithm = AlgorithmWeighted /\ W > 0 /\ Len(lbStreak) >= W)
              => \A i \in 1..n : TimesSelected(healthy[i].id, W) = healthy[i].weight

\* five weighted selections in a row over instances of weight 2, 1 and 2 have
\* been made, the first of them in the middle of a round
FairTurnsWitness ==
    /\ lbAlgorithm = AlgorithmWeighted
    /\ Len(lbInstances) = 3
    /\ getHealthyInstances(lbInstances) = lbInstances
    /\ lbInstances[1].weight = 2 /\ lbInstances[2].weight = 1 /\ lbInstances[3].weight = 2
    /\ Len(lbStreak) = 5
    /\ lbStreak[1] = lbInstances[2].id

\* C30: after any AddInstance, RemoveInstance, UpdateInstanceHealth and
\* health-checker runs, metrics.HealthyInstances is the number of registered
\* instances whose IsHealthy is true and metrics.TotalInstances is the number
\* of registered instances.
MetricsCountInstances ==
    /\ lbMetrics.healthyInstances = Len(getHealthyInstances(lbInstances))
    /\ lbMetrics.totalInstances = Len(lbInstances)

-----------------------------------------------------------------------------
(* Termination of the goroutine of the HTTP streaming handler              *)

\* C31: the goroutine that reads the upstream in handleStreamingResponse
\* always terminates, when the stream ends normally and when the client
\* disconnects early; it never stays blocked on a send to dataChan.
GoroutineTerminates == (gpc # "idle") ~> (gpc = "closed")

-----------------------------------------------------------------------------
(* The size the cache manager accounts for                                 *)

RECURSIVE SizeOfEntries(_, _)
\* the sum of entry.Size over the entries go-cache holds under the keys
SizeOfEntries(items, keys) ==
    IF keys = {} THEN 0
    ELSE LET k == CHOOSE k \in keys : TRUE
         IN  (IF items[k] = <<>> THEN 0 ELSE items[k][1].size)
                 + SizeOfEntries(items, keys \ {k})

\* C34: currentSize always equals the sum of the sizes of the entries
\* currently stored in the cache, after any sequence of Set (also on a key
\* that is present), Delete, Clear, LRU eviction and expiry.
CurrentSizeIsStoredSize == currentSize = SizeOfEntries(cacheItems, CacheKeys)

-----------------------------------------------------------------------------
(* The send channel of a WebSocket client                                  *)

\* C32: under every interleaving of unregister, broadcast overflow, hub
\* shutdown and request handlers that are still running, a client's send
\* channel is closed at most once and no SendMessage sends on it after it
\* has been closed.
SendChannelClosedOnceAndUnused ==
    /\ \A c \in HubClientIDs : clientCloses[c] <= 1
    /\ hubPanic # CloseOfClosed
    /\ hubPanic # SendOnClosed

-----------------------------------------------------------------------------
(* Termination of makeRequest                                              *)

\* C35: makeRequest of the Kiro and Qwen providers always returns after a
\* bounded number of upstream attempts, even when the upstream answers 401
\* to every attempt and every token refresh succeeds.
MakeRequestReturns == (mrPc = "do") ~> (mrPc = "returned")

-----------------------------------------------------------------------------
(* Leader election in the cluster                                          *)

\* C33: in a cluster where every node has joined through a seed node and no
\* node or link fails, at most one node has isLeader true and all nodes
\* hold the same leaderID, the lowest node id in the cluster.  The claim is
\* read for the settled cluster: every node has checked its leader since
\* the last node joined.
OneLeaderLowestID ==
    (clStarted = ClusterNodeIDs /\ ~clFailed /\ clChecked = ClusterNodeIDs) =>
        /\ Cardinality({n \in ClusterNodeIDs : clIsLeader[n]}) <= 1
        /\ \A n \in ClusterNodeIDs :
              clLeaderID[n] = LowestID(n, ClusterNodeIDs)

=============================================================================
